---- MODULE Spec2Model ----
(***************************************************************************)
(* Buddies Brawl: the game state machine of src/src/gameState.ts, the card *)
(* catalog of src/src/decks.ts, the operations the UI calls and the AI    *)
(* controller of src/src/ai.ts.                                            *)
(*                                                                         *)
(* JavaScript values are modelled as follows.                              *)
(*   - An optional number (hp, maxHp, turnPlaced of a card) that is absent *)
(*     is the value undefined (-1); OrZero models `x ?? 0` and `x || 0`.   *)
(*   - An optional string (evolvesFrom, evolvesFromBasic) that is absent   *)
(*     is the empty string.                                                *)
(*   - A slot (Card | null) is a sequence: <<>> is null, <<c>> holds c.    *)
(*   - Arrays are sequences; a JS index i is the TLA+ index i + 1.         *)
(*   - Math.random() is a deterministic generator with a hidden state, as  *)
(*     in every JS engine; the model uses a small linear congruential      *)
(*     generator whose seed Init draws from Seeds.                         *)
(***************************************************************************)
EXTENDS Integers, Sequences, FiniteSets, TLC

VARIABLES
    phase,          \* 'setup' | 'playing'
    currentPlayer,  \* PlayerId
    gameOver,       \* boolean
    winner,         \* PlayerId, 0 while undefined
    turnCount,      \* number
    setupReady,     \* Record<PlayerId, boolean>
    players,        \* Record<PlayerId, PlayerState>
    cardUidCounter, \* module-level counter of createCard
    rand,           \* hidden state of Math.random
    gameEndedCount, \* number of gameEnded notifications dispatched so far
    gameEndedDetail,\* the winner carried by the last of them, 0 while none
    seed,           \* the state Math.random started from
    ai              \* the AIController: the call in progress and its locals

\* The state of the game (GameState, the uid counter and Math.random).
vars == <<phase, currentPlayer, gameOver, winner, turnCount, setupReady,
          players, cardUidCounter, rand, gameEndedCount, gameEndedDetail, seed>>

---------------------------------------------------------------------------
(* Bounds of the model *)

\* startTurn is not taken once the turn counter has reached the turn bound
\* of the game: MaxTurn, or one turn less in the games that open with more
\* creatures in play.
MaxTurn == 4

\* createCard is not called once cardUidCounter would pass MaxCards.
MaxCards == 40

\* Seeds of the random generator: 770 deals one basic creature to each
\* player, 33 deals two to the second player, 71 deals supporters to both.
Seeds == {770, 33, 71}

\* The games in progress that are explored from a position: the state of
\* Math.random there, the turn the position is at and the turn it is
\* followed to.
FullBoardGame == [rand |-> 101, turnCount |-> 7, lastTurn |-> 8]

LastCardGame == [rand |-> 202, turnCount |-> 19, lastTurn |-> 19]

EmptyDeckGame == [rand |-> 303, turnCount |-> 21, lastTurn |-> 22]

\* The deal that gives the second player five basic creatures, followed to
\* the second turn.
FiveBasicsGame == [rand |-> 404, turnCount |-> 0, lastTurn |-> 2]

\* Seeds of the games played against the AI controller, and the turn the
\* first of them is followed to: 221 deals the AI a Lazycat, an MC
\* Scratchinator and a Chicken Nugget, and the human player two basic
\* creatures; 33 deals the AI two basic creatures.
AISeeds == {221, 33}

AIMaxTurn == 4

\* The attack clicks the page takes while a timer of an earlier click has
\* not fired, and the seed of the games played with timers.
MaxAttackTimers == 2

TimerSeeds == {33}

\* Seeds of the matches two AI controllers play against each other, and
\* the turn such a match is followed to.
DuelSeeds == {512, 640, 7, 900, 345, 128}

DuelMaxTurn == 80

TurnBound(s) ==
    IF s = 770 THEN MaxTurn
    ELSE IF s \in DuelSeeds THEN DuelMaxTurn
    ELSE IF s = FullBoardGame.rand THEN FullBoardGame.lastTurn
    ELSE IF s = LastCardGame.rand THEN LastCardGame.lastTurn
    ELSE IF s = EmptyDeckGame.rand THEN EmptyDeckGame.lastTurn
    ELSE IF s = FiveBasicsGame.rand THEN FiveBasicsGame.lastTurn
    ELSE IF s = 221 THEN AIMaxTurn
    ELSE MaxTurn - 1

---------------------------------------------------------------------------
(* JavaScript helpers *)

undefined == -1

OrZero(x) == IF x = undefined THEN 0 ELSE x

null == <<>>

PlayerIds == {1, 2}

Min(a, b) == IF a < b THEN a ELSE b

Max(a, b) == IF a > b THEN a ELSE b

\* The start position (0-based) Array.prototype.splice computes from its
\* first argument.
SpliceStart(array, start) ==
    IF start < 0 THEN Max(Len(array) + start, 0) ELSE Min(start, Len(array))

\* A variant of array.splice(start, 1) that removes nothing.
SpliceOneKeeps(array, start) == array

\* array after array.splice(start, 1)
SpliceOne(array, start) ==
    LET s == SpliceStart(array, start)
    IN  [k \in 1..(Len(array) - (IF s < Len(array) THEN 1 ELSE 0)) |->
            IF k <= s THEN array[k] ELSE array[k + 1]]

\* array after array.splice(start, 0, item)
SpliceInsert(array, start, item) ==
    LET s == SpliceStart(array, start)
    IN  [k \in 1..(Len(array) + 1) |->
            IF k <= s THEN array[k] ELSE IF k = s + 1 THEN item ELSE array[k - 1]]

\* array[i] of a JS array: <<>> when i is no index of it, else <<array[i]>>
At(array, i) == IF i >= 0 /\ i < Len(array) THEN <<array[i + 1]>> ELSE <<>>

---------------------------------------------------------------------------
(* Math.random *)

RandModulus == 1024

RandMultiplier == 61

RandIncrement == 7

\* The generator's state after one more call of Math.random().
NextRand(r) == (RandMultiplier * r + RandIncrement) % RandModulus

\* Math.floor(Math.random() * n), where the call left the generator in state r.
RandomBelow(r, n) == (r * n) \div RandModulus

---------------------------------------------------------------------------
(* decks.ts: the card catalog *)

none == ""

CardIds == {"base-001", "base-002", "base-003", "base-004",
            "base-005", "base-006", "base-007", "base-008"}

Template(hp, attackDamage, evolvesFrom, evolvesFromBasic, isBasic, isEx, isSupporter, isItem) ==
    [hp |-> hp, attackDamage |-> attackDamage, evolvesFrom |-> evolvesFrom,
     evolvesFromBasic |-> evolvesFromBasic, isBasic |-> isBasic, isEx |-> isEx,
     isSupporter |-> isSupporter, isItem |-> isItem]

CARD_DATA ==
    [id \in CardIds |->
        CASE id = "base-001" -> Template(60, 20, none, none, TRUE, FALSE, FALSE, FALSE)
          [] id = "base-002" -> Template(90, 40, "base-001", none, FALSE, FALSE, FALSE, FALSE)
          [] id = "base-003" -> Template(60, 20, none, none, TRUE, FALSE, FALSE, FALSE)
          [] id = "base-004" -> Template(100, 40, "base-003", none, FALSE, FALSE, FALSE, FALSE)
          [] id = "base-005" -> Template(180, 120, "base-004", "base-003", FALSE, TRUE, FALSE, FALSE)
          [] id = "base-006" -> Template(undefined, undefined, none, none, FALSE, FALSE, TRUE, FALSE)
          [] id = "base-007" -> Template(undefined, undefined, none, none, FALSE, FALSE, FALSE, TRUE)
          [] id = "base-008" -> Template(undefined, undefined, none, none, FALSE, FALSE, FALSE, TRUE)]

DECK_CONFIGS ==
    << [id |-> "base-001", count |-> 3], [id |-> "base-002", count |-> 3],
       [id |-> "base-003", count |-> 3], [id |-> "base-004", count |-> 2],
       [id |-> "base-005", count |-> 2], [id |-> "base-006", count |-> 3],
       [id |-> "base-007", count |-> 2], [id |-> "base-008", count |-> 2] >>

isBasic(card) == CARD_DATA[card.id].isBasic

\* A variant of isEx under which no card is an Ex card.
isExNever(card) == FALSE

isEx(card) == CARD_DATA[card.id].isEx

isSupporter(card) == CARD_DATA[card.id].isSupporter

isItem(card) == CARD_DATA[card.id].isItem

evolvesFrom(card) == CARD_DATA[card.id].evolvesFrom

evolvesFromBasic(card) == CARD_DATA[card.id].evolvesFromBasic

\* A variant of attackDamage that doubles the damage.
attackDamageDoubled(card) == 2 * CARD_DATA[card.id].attackDamage

attackDamage(card) == CARD_DATA[card.id].attackDamage

---------------------------------------------------------------------------
(* gameState.ts: utility functions *)

\* createCard(id) when cardUidCounter is uid
createCard(id, uid) ==
    [uid |-> uid, id |-> id, hp |-> CARD_DATA[id].hp, maxHp |-> CARD_DATA[id].hp,
     turnPlaced |-> undefined]

\* shuffle: the loop from index i down to 1
RECURSIVE ShuffleLoop(_, _, _)
ShuffleLoop(shuffled, i, r) ==
    IF i <= 0 THEN [array |-> shuffled, rand |-> r]
    ELSE LET r2 == NextRand(r)
             j  == RandomBelow(r2, i + 1)
         IN  ShuffleLoop([shuffled EXCEPT ![i + 1] = shuffled[j + 1],
                                          ![j + 1] = shuffled[i + 1]],
                         i - 1, r2)

shuffle(array, r) == ShuffleLoop(array, Len(array) - 1, r)

\* The id of the k-th card (from 1) of the flatMap over the deck list.
RECURSIVE ConfigIdAt(_, _, _)
ConfigIdAt(cards, e, k) ==
    IF k <= cards[e].count THEN cards[e].id ELSE ConfigIdAt(cards, e + 1, k - cards[e].count)

RECURSIVE ConfigSize(_, _)
ConfigSize(cards, e) ==
    IF e > Len(cards) THEN 0 ELSE cards[e].count + ConfigSize(cards, e + 1)

\* createDeck(deckConfig) when cardUidCounter is uid and the generator is in state r
createDeck(cards, uid, r) ==
    LET deck == [k \in 1..ConfigSize(cards, 1) |->
                    createCard(ConfigIdAt(cards, 1, k), uid + k - 1)]
    IN  shuffle(deck, r)

---------------------------------------------------------------------------
(* gameState.ts: GameState *)

createPlayerState ==
    [deck |-> <<>>, hand |-> <<>>, active |-> null, bench |-> <<null, null, null>>,
     points |-> 0, hasPlayedSupporter |-> FALSE]

getOpponentId(id) == IF id = 1 THEN 2 ELSE 1

canAct(player) == player = currentPlayer /\ phase = "playing" /\ ~gameOver

\* A variant of drawCards that takes the cards from the front of the deck.
drawCardsFromFront(p, count) ==
    LET n == Min(count, Len(p.deck))
    IN  [p EXCEPT !.deck = SubSeq(p.deck, n + 1, Len(p.deck)),
                  !.hand = p.hand \o SubSeq(p.deck, 1, n)]

\* drawCards on a player state: p.hand.push(...p.deck.splice(-count))
drawCards(p, count) ==
    LET s == SpliceStart(p.deck, 0 - count)
    IN  [p EXCEPT !.deck = SubSeq(p.deck, 1, s),
                  !.hand = p.hand \o SubSeq(p.deck, s + 1, Len(p.deck))]

InitialHandSize == 5

\* A variant of the loop of drawInitialHands that does not put a rejected
\* hand back into the deck.
RECURSIVE DrawInitialHandDropsHand(_, _)
DrawInitialHandDropsHand(p, r) ==
    LET sh    == shuffle(p.deck, r)
        drawn == drawCards([p EXCEPT !.deck = sh.array, !.hand = <<>>], InitialHandSize)
    IN  IF \E k \in 1..Len(drawn.hand) : isBasic(drawn.hand[k])
        THEN [player |-> drawn, rand |-> sh.rand]
        ELSE DrawInitialHandDropsHand(drawn, sh.rand)

\* One player's do-while loop of drawInitialHands.
RECURSIVE DrawInitialHand(_, _)
DrawInitialHand(p, r) ==
    LET sh    == shuffle(p.deck \o p.hand, r)
        drawn == drawCards([p EXCEPT !.deck = sh.array, !.hand = <<>>], InitialHandSize)
    IN  IF \E k \in 1..Len(drawn.hand) : isBasic(drawn.hand[k])
        THEN [player |-> drawn, rand |-> sh.rand]
        ELSE DrawInitialHand(drawn, sh.rand)

\* The AIController between two calls: pc is the place in the method that
\* is running ("idle" when none is), queue the indices a forEach still has to
\* visit, i the counter of the for loop, setupCalled whether setup() has
\* been called since the deal, hand the hand the call of setup() found, me
\* the playerNumber of the controller whose method ran last, policy the
\* class of the controller of each player, attackTimers the number of
\* timers the page has set for gameState.attack() that have not fired.
AIIdle == [pc |-> "idle", queue |-> <<>>, i |-> 0, setupCalled |-> FALSE, hand |-> <<>>,
           me |-> 2, policy |-> <<"naive", "naive">>, attackTimers |-> 0]

Init ==
    /\ phase = "setup"
    /\ currentPlayer = 1
    /\ gameOver = FALSE
    /\ winner = 0
    /\ turnCount = 0
    /\ setupReady = [p \in PlayerIds |-> FALSE]
    /\ players = [p \in PlayerIds |-> createPlayerState]
    /\ cardUidCounter = 0
    /\ seed \in Seeds
    /\ rand = seed
    /\ gameEndedCount = 0
    /\ gameEndedDetail = 0
    /\ ai = AIIdle

initializeGame ==
    LET n == ConfigSize(DECK_CONFIGS, 1)
    IN  /\ cardUidCounter + 2 * n <= MaxCards
        /\ \E d1 \in {createDeck(DECK_CONFIGS, cardUidCounter, rand)} :
           \E d2 \in {createDeck(DECK_CONFIGS, cardUidCounter + n, d1.rand)} :
           \E h1 \in {DrawInitialHand([players[1] EXCEPT !.deck = d1.array], d2.rand)} :
           \E h2 \in {DrawInitialHand([players[2] EXCEPT !.deck = d2.array], h1.rand)} :
              /\ players' = [players EXCEPT ![1] = h1.player, ![2] = h2.player]
              /\ rand' = h2.rand
        /\ cardUidCounter' = cardUidCounter + 2 * n
        /\ UNCHANGED <<phase, currentPlayer, gameOver, winner, turnCount, setupReady,
                       gameEndedCount, gameEndedDetail, seed>>

\* A variant of startTurn that starts the turn of the player who already is
\* the current player.
startTurnSamePlayer(player, pl) ==
    /\ turnCount < TurnBound(seed)
    /\ currentPlayer' = currentPlayer
    /\ turnCount' = turnCount + 1
    /\ players' =
          LET cleared == [pl EXCEPT ![player].hasPlayedSupporter = FALSE]
          IN  IF turnCount + 1 > 1
              THEN [cleared EXCEPT ![player] = drawCards(@, 1)]
              ELSE cleared

\* startTurn(player), entered with the players' states pl
startTurn(player, pl) ==
    /\ turnCount < TurnBound(seed)
    /\ currentPlayer' = player
    /\ turnCount' = turnCount + 1
    /\ players' =
          LET cleared == [pl EXCEPT ![player].hasPlayedSupporter = FALSE]
          IN  IF turnCount + 1 > 1
              THEN [cleared EXCEPT ![player] = drawCards(@, 1)]
              ELSE cleared

\* A call that returns without any effect.
NoEffect == UNCHANGED vars

\* A variant of the guard of endTurn that lets a finished game go on.
endTurnNeverRejects == FALSE

endTurnRejects == gameOver

endTurn ==
    IF endTurnRejects
    THEN NoEffect
    ELSE /\ startTurn(getOpponentId(currentPlayer), players)
         /\ UNCHANGED <<phase, gameOver, winner, setupReady, cardUidCounter, rand,
                        gameEndedCount, gameEndedDetail, seed>>

\* A variant of endGame that leaves the winner unset.
endGameNoWinner(w) ==
    /\ gameOver' = TRUE
    /\ winner' = winner
    /\ gameEndedCount' = gameEndedCount + 1
    /\ gameEndedDetail' = w

\* A variant of endGame that records the other player as the winner.
endGameOtherWinner(w) ==
    /\ gameOver' = TRUE
    /\ winner' = getOpponentId(w)
    /\ gameEndedCount' = gameEndedCount + 1
    /\ gameEndedDetail' = w

\* endGame(winner)
endGame(w) ==
    /\ gameOver' = TRUE
    /\ winner' = w
    /\ gameEndedCount' = gameEndedCount + 1
    /\ gameEndedDetail' = w

\* A variant of the guard of setPlayerReady that does not ask for an active
\* creature.
setPlayerReadyRejectsSetupOnly(player) == phase # "setup"

setPlayerReadyRejects(player) ==
    phase # "setup" \/ players[player].active = null

setPlayerReady(player) ==
    IF setPlayerReadyRejects(player)
    THEN NoEffect
    ELSE LET ready == [setupReady EXCEPT ![player] = TRUE]
         IN  /\ setupReady' = ready
             /\ IF ready[1] /\ ready[2]
                THEN /\ phase' = "playing"
                     /\ startTurn(1, players)
                ELSE UNCHANGED <<phase, currentPlayer, turnCount, players>>
             /\ UNCHANGED <<gameOver, winner, cardUidCounter, rand, gameEndedCount,
                            gameEndedDetail, seed>>

\* A variant of _playSupporter that does not record that a supporter was
\* played.
PlaySupporterNoFlag(player, handIndex) ==
    LET p == players[player]
    IN  IF phase = "setup" \/ p.hasPlayedSupporter
        THEN [played |-> FALSE, players |-> players, rand |-> rand]
        ELSE LET drawn == [players EXCEPT ![currentPlayer] = drawCards(@, 2)]
             IN  [played |-> TRUE,
                  players |-> [drawn EXCEPT ![player].hand = SpliceOne(@, handIndex)],
                  rand |-> rand]

\* A variant of _playSupporter that draws one card.
PlaySupporterDrawsOne(player, handIndex) ==
    LET p == players[player]
    IN  IF phase = "setup" \/ p.hasPlayedSupporter
        THEN [played |-> FALSE, players |-> players, rand |-> rand]
        ELSE LET drawn == [players EXCEPT ![currentPlayer] = drawCards(@, 1)]
             IN  [played |-> TRUE,
                  players |-> [drawn EXCEPT
                                  ![player].hand = SpliceOne(@, handIndex),
                                  ![player].hasPlayedSupporter = TRUE],
                  rand |-> rand]

\* A variant of _playSupporter that refuses the card when the deck is empty.
PlaySupporterNeedsDeck(player, handIndex) ==
    LET p == players[player]
    IN  IF phase = "setup" \/ p.hasPlayedSupporter \/ p.deck = <<>>
        THEN [played |-> FALSE, players |-> players, rand |-> rand]
        ELSE LET drawn == [players EXCEPT ![currentPlayer] = drawCards(@, 2)]
             IN  [played |-> TRUE,
                  players |-> [drawn EXCEPT
                                  ![player].hand = SpliceOne(@, handIndex),
                                  ![player].hasPlayedSupporter = TRUE],
                  rand |-> rand]

\* _playSupporter: [played, players, rand]
PlaySupporter(player, handIndex) ==
    LET p == players[player]
    IN  IF phase = "setup" \/ p.hasPlayedSupporter
        THEN [played |-> FALSE, players |-> players, rand |-> rand]
        ELSE LET drawn == [players EXCEPT ![currentPlayer] = drawCards(@, 2)]
             IN  [played |-> TRUE,
                  players |-> [drawn EXCEPT
                                  ![player].hand = SpliceOne(@, handIndex),
                                  ![player].hasPlayedSupporter = TRUE],
                  rand |-> rand]

\* A variant of basicIndices that takes every card of the deck.
BasicIndicesAll(deck) == [k \in 1..Len(deck) |-> k - 1]

\* The indices (0-based, ascending) of the basic cards of a deck.
BasicIndices(deck) ==
    LET RECURSIVE Collect(_)
        Collect(k) ==
            IF k > Len(deck) THEN <<>>
            ELSE (IF isBasic(deck[k]) THEN <<k - 1>> ELSE <<>>) \o Collect(k + 1)
    IN  Collect(1)

\* _playCoachWhistle: [played, players, rand]
PlayCoachWhistle(player, handIndex) ==
    LET p == players[player]
    IN  IF phase = "setup"
        THEN [played |-> FALSE, players |-> players, rand |-> rand]
        ELSE LET hand1        == SpliceOne(p.hand, handIndex)
                 basicIndices == BasicIndices(p.deck)
                 found        == Len(basicIndices) > 0
                 r1           == IF found THEN NextRand(rand) ELSE rand
                 randomIndex  == basicIndices[RandomBelow(r1, Len(basicIndices)) + 1]
                 hand2        == IF found THEN Append(hand1, p.deck[randomIndex + 1]) ELSE hand1
                 deck1        == IF found THEN SpliceOne(p.deck, randomIndex) ELSE p.deck
                 sh           == shuffle(deck1, r1)
             IN  [played |-> TRUE,
                  players |-> [players EXCEPT ![player].hand = hand2,
                                              ![player].deck = sh.array],
                  rand |-> sh.rand]

\* A variant of indexOf that finds the last empty slot.
IndexOfNullLast(bench) ==
    IF \E k \in 1..Len(bench) : bench[k] = null
    THEN (CHOOSE k \in 1..Len(bench) :
              bench[k] = null /\ \A m \in (k + 1)..Len(bench) : bench[m] # null) - 1
    ELSE -1

\* p.bench.indexOf(null)
IndexOfNull(bench) ==
    IF \E k \in 1..Len(bench) : bench[k] = null
    THEN (CHOOSE k \in 1..Len(bench) :
              bench[k] = null /\ \A m \in 1..(k - 1) : bench[m] # null) - 1
    ELSE -1

\* _playBasic: [played, players, rand]
PlayBasic(player, handIndex) ==
    LET p          == players[player]
        cardToPlay == [p.hand[handIndex + 1] EXCEPT !.turnPlaced = turnCount]
        hand1      == SpliceOne(p.hand, handIndex)
        benchIdx   == IndexOfNull(p.bench)
    IN  IF p.active = null
        THEN [played |-> TRUE,
              players |-> [players EXCEPT ![player].hand = hand1,
                                          ![player].active = <<cardToPlay>>],
              rand |-> rand]
        ELSE IF benchIdx = -1
        THEN [played |-> FALSE,
              players |-> [players EXCEPT
                              ![player].hand = SpliceInsert(hand1, handIndex, cardToPlay)],
              rand |-> rand]
        ELSE [played |-> TRUE,
              players |-> [players EXCEPT ![player].hand = hand1,
                                          ![player].bench[benchIdx + 1] = <<cardToPlay>>],
              rand |-> rand]

\* A variant of the dispatch of playCard that plays every item card the way
\* Coach Whistle is played.
PlayCardDispatchAnyItem(player, handIndex) ==
    LET card == players[player].hand[handIndex + 1]
    IN  IF isSupporter(card) THEN PlaySupporter(player, handIndex)
        ELSE IF isItem(card) THEN PlayCoachWhistle(player, handIndex)
        ELSE IF isBasic(card) THEN PlayBasic(player, handIndex)
        ELSE [played |-> FALSE, players |-> players, rand |-> rand]

\* The dispatch of playCard on the card at handIndex: [played, players, rand]
PlayCardDispatch(player, handIndex) ==
    LET card == players[player].hand[handIndex + 1]
    IN  IF isSupporter(card) THEN PlaySupporter(player, handIndex)
        ELSE IF card.id = "base-007" THEN PlayCoachWhistle(player, handIndex)
        ELSE IF card.id = "base-008"
        THEN [played |-> FALSE, players |-> players, rand |-> rand]
        ELSE IF isBasic(card) THEN PlayBasic(player, handIndex)
        ELSE [played |-> FALSE, players |-> players, rand |-> rand]

\* A variant of the guard of playCard that asks for the current player in
\* the setup phase too.
playCardRejectsSetupToo(player, handIndex) ==
    \/ gameOver
    \/ currentPlayer # player
    \/ At(players[player].hand, handIndex) = <<>>

playCardRejects(player, handIndex) ==
    \/ gameOver
    \/ (phase = "playing" /\ currentPlayer # player)
    \/ At(players[player].hand, handIndex) = <<>>

playCard(player, handIndex) ==
    IF playCardRejects(player, handIndex)
    THEN NoEffect
    ELSE \E d \in {PlayCardDispatch(player, handIndex)} :
            /\ players' = d.players
            /\ rand' = d.rand
            /\ UNCHANGED <<phase, currentPlayer, gameOver, winner, turnCount, setupReady,
                           cardUidCounter, gameEndedCount, gameEndedDetail, seed>>

\* A variant of the notifications of playCard: update() is called whether
\* or not a card was played.
playCardUpdatesAlways(player, handIndex) ==
    IF playCardRejects(player, handIndex)
    THEN <<>>
    ELSE <<PlayCardDispatch(player, handIndex).players>>

\* The gameStateUpdated notifications playCard(player, handIndex) emits, in
\* order: each is the players' states the listeners find in its detail.
playCardUpdates(player, handIndex) ==
    IF playCardRejects(player, handIndex)
    THEN <<>>
    ELSE IF PlayCardDispatch(player, handIndex).played
    THEN <<PlayCardDispatch(player, handIndex).players>>
    ELSE <<>>

\* p.bench[benchIndex], null standing for undefined too
BenchSlot(p, benchIndex) ==
    IF benchIndex >= 0 /\ benchIndex < Len(p.bench) THEN p.bench[benchIndex + 1] ELSE null

\* targetBoardIndex === -1 ? p.active : p.bench[targetBoardIndex]
TargetSlot(p, targetBoardIndex) ==
    IF targetBoardIndex = -1 THEN p.active ELSE BenchSlot(p, targetBoardIndex)

\* A variant of _performEvolution that puts the new creature at full hp.
PerformEvolutionFullHp(p, evolvedCard, targetCard, targetBoardIndex) ==
    LET placed == [evolvedCard EXCEPT !.hp = OrZero(evolvedCard.maxHp),
                                      !.turnPlaced = turnCount]
    IN  IF targetBoardIndex = -1
        THEN [p EXCEPT !.active = <<placed>>]
        ELSE [p EXCEPT !.bench[targetBoardIndex + 1] = <<placed>>]

\* A variant of _performEvolution that adds the damage of the replaced
\* creature to the hit points of the new one.
PerformEvolutionDamageAdded(p, evolvedCard, targetCard, targetBoardIndex) ==
    LET damage == OrZero(targetCard.maxHp) - OrZero(targetCard.hp)
        placed == [evolvedCard EXCEPT !.hp = OrZero(evolvedCard.maxHp) + damage,
                                      !.turnPlaced = turnCount]
    IN  IF targetBoardIndex = -1
        THEN [p EXCEPT !.active = <<placed>>]
        ELSE [p EXCEPT !.bench[targetBoardIndex + 1] = <<placed>>]

\* A variant of _performEvolution that keeps the turnPlaced of the replaced
\* creature.
PerformEvolutionOldStamp(p, evolvedCard, targetCard, targetBoardIndex) ==
    LET damage == OrZero(targetCard.maxHp) - OrZero(targetCard.hp)
        placed == [evolvedCard EXCEPT !.hp = OrZero(evolvedCard.maxHp) - damage,
                                      !.turnPlaced = targetCard.turnPlaced]
    IN  IF targetBoardIndex = -1
        THEN [p EXCEPT !.active = <<placed>>]
        ELSE [p EXCEPT !.bench[targetBoardIndex + 1] = <<placed>>]

\* _performEvolution on a player state whose hand has already lost its cards
PerformEvolution(p, evolvedCard, targetCard, targetBoardIndex) ==
    LET damage == OrZero(targetCard.maxHp) - OrZero(targetCard.hp)
        placed == [evolvedCard EXCEPT !.hp = OrZero(evolvedCard.maxHp) - damage,
                                      !.turnPlaced = turnCount]
    IN  IF targetBoardIndex = -1
        THEN [p EXCEPT !.active = <<placed>>]
        ELSE [p EXCEPT !.bench[targetBoardIndex + 1] = <<placed>>]

\* hand.findIndex((c, i) => i !== handIndex && c.evolvesFromBasic === id)
Stage2EvoIndex(hand, handIndex, id) ==
    LET Match(k) == k - 1 # handIndex /\ evolvesFromBasic(hand[k]) = id
    IN  IF \E k \in 1..Len(hand) : Match(k)
        THEN (CHOOSE k \in 1..Len(hand) : Match(k) /\ \A m \in 1..(k - 1) : ~Match(m)) - 1
        ELSE -1

\* The value playChickenNugget(player, handIndex, targetBoardIndex) returns.
playChickenNuggetResult(player, handIndex, targetBoardIndex) ==
    LET p      == players[player]
        target == TargetSlot(p, targetBoardIndex)
    IN  /\ canAct(player)
        /\ target # null
        /\ isBasic(target[1])
        /\ ~(OrZero(target[1].turnPlaced) >= turnCount)
        /\ Stage2EvoIndex(p.hand, handIndex, target[1].id) # -1

playChickenNugget(player, handIndex, targetBoardIndex) ==
    IF ~playChickenNuggetResult(player, handIndex, targetBoardIndex)
    THEN NoEffect
    ELSE LET p             == players[player]
             targetCard    == TargetSlot(p, targetBoardIndex)[1]
             stage2        == Stage2EvoIndex(p.hand, handIndex, targetCard.id)
             evolvedCard   == p.hand[stage2 + 1]
             hand1         == SpliceOne(SpliceOne(p.hand, Max(handIndex, stage2)),
                                        Min(handIndex, stage2))
         IN  /\ players' = [players EXCEPT ![player] =
                    PerformEvolution([p EXCEPT !.hand = hand1], evolvedCard, targetCard,
                                     targetBoardIndex)]
             /\ UNCHANGED <<phase, currentPlayer, gameOver, winner, turnCount, setupReady,
                            cardUidCounter, rand, gameEndedCount, gameEndedDetail, seed>>

\* A variant of the guard of evolve that ignores the turn counter.
evolveRejectsAnyTurn(player, handIndex, targetBoardIndex) ==
    LET p      == players[player]
        target == TargetSlot(p, targetBoardIndex)
        inHand == At(p.hand, handIndex)
    IN  \/ ~canAct(player)
        \/ target = null
        \/ inHand = <<>>
        \/ evolvesFrom(inHand[1]) = none
        \/ evolvesFrom(inHand[1]) # target[1].id
        \/ OrZero(target[1].turnPlaced) >= turnCount

evolveRejects(player, handIndex, targetBoardIndex) ==
    LET p      == players[player]
        target == TargetSlot(p, targetBoardIndex)
        inHand == At(p.hand, handIndex)
    IN  \/ ~canAct(player)
        \/ turnCount <= 1
        \/ target = null
        \/ inHand = <<>>
        \/ evolvesFrom(inHand[1]) = none
        \/ evolvesFrom(inHand[1]) # target[1].id
        \/ OrZero(target[1].turnPlaced) >= turnCount

evolve(player, handIndex, targetBoardIndex) ==
    LET p      == players[player]
        target == TargetSlot(p, targetBoardIndex)
        inHand == At(p.hand, handIndex)
    IN  IF evolveRejects(player, handIndex, targetBoardIndex)
        THEN NoEffect
        ELSE /\ players' = [players EXCEPT ![player] =
                    PerformEvolution([p EXCEPT !.hand = SpliceOne(p.hand, handIndex)],
                                     inHand[1], target[1], targetBoardIndex)]
             /\ UNCHANGED <<phase, currentPlayer, gameOver, winner, turnCount, setupReady,
                            cardUidCounter, rand, gameEndedCount, gameEndedDetail, seed>>

\* A variant of canOpponentContinue that always finds a benched creature.
canOpponentContinueAlways(o) == TRUE

\* A variant of the test that counts the cards in hand as well.
canOpponentContinueWithHand(o) ==
    o.hand # <<>> \/ \E k \in 1..Len(o.bench) : o.bench[k] # null

\* opp.bench.some(c => c !== null)
canOpponentContinue(o) == \E k \in 1..Len(o.bench) : o.bench[k] # null

attackRejects ==
    \/ ~canAct(currentPlayer)
    \/ players[currentPlayer].active = null
    \/ players[getOpponentId(currentPlayer)].active = null

\* A variant of attack that tests the end of the match after every hit,
\* knockout or not.
attackEndTestAfterEveryHit ==
    LET me  == currentPlayer
        opp == getOpponentId(currentPlayer)
        p   == players[me]
        o   == players[opp]
    IN  IF attackRejects
        THEN NoEffect
        ELSE LET hp == OrZero(o.active[1].hp) - OrZero(attackDamage(p.active[1]))
                 ko == hp <= 0
                 points == IF ko
                           THEN p.points + (IF isEx(o.active[1]) THEN 2 ELSE 1)
                           ELSE p.points
                 hit == [players EXCEPT ![opp].active[1].hp = hp]
                 out == [players EXCEPT ![opp].active = null, ![me].points = points]
             IN  IF points >= 3 \/ ~canOpponentContinue(o)
                 THEN /\ players' = IF ko THEN out ELSE hit
                      /\ endGame(currentPlayer)
                      /\ UNCHANGED <<phase, currentPlayer, turnCount, setupReady,
                                     cardUidCounter, rand, seed>>
                 ELSE /\ startTurn(opp, IF ko THEN out ELSE hit)
                      /\ UNCHANGED <<phase, gameOver, winner, setupReady, cardUidCounter,
                                     rand, gameEndedCount, gameEndedDetail, seed>>

attack ==
    LET me  == currentPlayer
        opp == getOpponentId(currentPlayer)
        p   == players[me]
        o   == players[opp]
    IN  IF attackRejects
        THEN NoEffect
        ELSE LET hp == OrZero(o.active[1].hp) - OrZero(attackDamage(p.active[1]))
                 ko == hp <= 0
                 points == p.points + (IF isEx(o.active[1]) THEN 2 ELSE 1)
                 hit == [players EXCEPT ![opp].active[1].hp = hp]
                 out == [players EXCEPT ![opp].active = null, ![me].points = points]
             IN  IF ko /\ (points >= 3 \/ ~canOpponentContinue(o))
                 THEN /\ players' = out
                      /\ endGame(currentPlayer)
                      /\ UNCHANGED <<phase, currentPlayer, turnCount, setupReady,
                                     cardUidCounter, rand, seed>>
                 ELSE /\ startTurn(opp, IF ko THEN out ELSE hit)
                      /\ UNCHANGED <<phase, gameOver, winner, setupReady, cardUidCounter,
                                     rand, gameEndedCount, gameEndedDetail, seed>>

\* A variant of the guard of promote that lets a finished game go on.
promoteRejectsNotGameOver(player, benchIndex) ==
    LET p == players[player]
    IN  p.active # null \/ BenchSlot(p, benchIndex) = null

promoteRejects(player, benchIndex) ==
    LET p == players[player]
    IN  gameOver \/ p.active # null \/ BenchSlot(p, benchIndex) = null

\* A variant of promote that takes the creature out of the bench array
\* without putting null in its place: p.bench.splice(benchIndex, 1).
promoteWithoutNull(player, benchIndex) ==
    LET p == players[player]
    IN  IF promoteRejects(player, benchIndex)
        THEN NoEffect
        ELSE /\ players' = [players EXCEPT ![player].active = p.bench[benchIndex + 1],
                                           ![player].bench = SpliceOne(p.bench, benchIndex)]
             /\ UNCHANGED <<phase, currentPlayer, gameOver, winner, turnCount, setupReady,
                            cardUidCounter, rand, gameEndedCount, gameEndedDetail, seed>>

promote(player, benchIndex) ==
    LET p == players[player]
    IN  IF promoteRejects(player, benchIndex)
        THEN NoEffect
        ELSE /\ players' = [players EXCEPT ![player].active = p.bench[benchIndex + 1],
                                           ![player].bench[benchIndex + 1] = null]
             /\ UNCHANGED <<phase, currentPlayer, gameOver, winner, turnCount, setupReady,
                            cardUidCounter, rand, gameEndedCount, gameEndedDetail, seed>>

\* A variant of the guard of retreat that lets either player retreat.
retreatRejectsAnyPlayer(player, benchIndex) ==
    LET p == players[player]
    IN  gameOver \/ phase # "playing" \/ p.active = null \/ BenchSlot(p, benchIndex) = null

retreatRejects(player, benchIndex) ==
    LET p == players[player]
    IN  ~canAct(player) \/ p.active = null \/ BenchSlot(p, benchIndex) = null

retreat(player, benchIndex) ==
    LET p == players[player]
    IN  IF retreatRejects(player, benchIndex)
        THEN NoEffect
        ELSE /\ players' = [players EXCEPT ![player].active = p.bench[benchIndex + 1],
                                           ![player].bench[benchIndex + 1] = p.active]
             /\ UNCHANGED <<phase, currentPlayer, gameOver, winner, turnCount, setupReady,
                            cardUidCounter, rand, gameEndedCount, gameEndedDetail, seed>>

---------------------------------------------------------------------------
(* The callers: every public operation, with every argument *)

\* handIndex arguments: every index of the hand, one before and one past it
HandIndices(player) == -1..Len(players[player].hand)

\* targetBoardIndex and benchIndex arguments: -1, every bench index, one past
BoardIndices == -1..3

\* Some call is rejected by the guard at its head.  Every such call has
\* the same effect, NoEffect, so Next takes them all in the one step Rejected.
SomeCallRejects ==
    \/ endTurnRejects
    \/ attackRejects
    \/ \E player \in PlayerIds : setPlayerReadyRejects(player)
    \/ \E player \in PlayerIds : \E handIndex \in HandIndices(player) :
          playCardRejects(player, handIndex)
    \/ \E player \in PlayerIds : \E handIndex \in HandIndices(player) :
       \E targetBoardIndex \in BoardIndices :
          \/ evolveRejects(player, handIndex, targetBoardIndex)
          \/ ~playChickenNuggetResult(player, handIndex, targetBoardIndex)
    \/ \E player \in PlayerIds : \E benchIndex \in BoardIndices :
          promoteRejects(player, benchIndex) \/ retreatRejects(player, benchIndex)

Rejected == (SomeCallRejects = TRUE) /\ NoEffect

\* The public operations of GameState, called between two calls of the AI
\* controller.
Next ==
    \/ initializeGame /\ UNCHANGED ai
    \/ ~endTurnRejects /\ endTurn /\ UNCHANGED ai
    \/ ~attackRejects /\ attack /\ UNCHANGED ai
    \/ \E player \in PlayerIds :
          ~setPlayerReadyRejects(player) /\ setPlayerReady(player) /\ UNCHANGED ai
    \/ \E player \in PlayerIds : \E handIndex \in HandIndices(player) :
          ~playCardRejects(player, handIndex) /\ playCard(player, handIndex) /\ UNCHANGED ai
    \/ \E player \in PlayerIds : \E handIndex \in HandIndices(player) :
       \E targetBoardIndex \in BoardIndices :
          /\ ~evolveRejects(player, handIndex, targetBoardIndex)
          /\ evolve(player, handIndex, targetBoardIndex)
          /\ UNCHANGED ai
    \/ \E player \in PlayerIds : \E handIndex \in HandIndices(player) :
       \E targetBoardIndex \in BoardIndices :
          /\ playChickenNuggetResult(player, handIndex, targetBoardIndex)
          /\ playChickenNugget(player, handIndex, targetBoardIndex)
          /\ UNCHANGED ai
    \/ \E player \in PlayerIds : \E benchIndex \in BoardIndices :
          ~promoteRejects(player, benchIndex) /\ promote(player, benchIndex) /\ UNCHANGED ai
    \/ \E player \in PlayerIds : \E benchIndex \in BoardIndices :
          ~retreatRejects(player, benchIndex) /\ retreat(player, benchIndex) /\ UNCHANGED ai
    \/ Rejected /\ UNCHANGED ai

Spec == Init /\ [][Next]_vars

---------------------------------------------------------------------------
(* Positions of games in progress *)

\* The card createDeck creates with this uid: the decks are created in the
\* order of the deck list, player 1's first.
CardOfUid(uid) ==
    createCard(ConfigIdAt(DECK_CONFIGS, 1, (uid % ConfigSize(DECK_CONFIGS, 1)) + 1), uid)

Cards(uids) == [k \in 1..Len(uids) |-> CardOfUid(uids[k])]

\* A card in play: placed on turn turnPlaced, now at hp.
InPlay(uid, hp, turnPlaced) ==
    <<[CardOfUid(uid) EXCEPT !.hp = hp, !.turnPlaced = turnPlaced]>>

PlayerAt(deck, hand, active, bench, points) ==
    [deck |-> Cards(deck), hand |-> Cards(hand), active |-> active, bench |-> bench,
     points |-> points, hasPlayedSupporter |-> FALSE]

\* Turn 7, player 1 to move with a full board.  Player 1 has passed or
\* attacked with Lazycat 8 (twice, on turns 1 and 3), has played supporter
\* 15 and whistle 17, lost Lazycat 8 on turn 6, and has this turn promoted
\* Lazycat 6 and benched Lazycat 7; no basic creature is left in its deck.
\* Player 2 has only attacked.  The position is followed to turn 8.
FullBoardPosition ==
    [turnCount |-> FullBoardGame.turnCount, currentPlayer |-> 1, rand |-> FullBoardGame.rand,
     players |->
        [p \in PlayerIds |->
            IF p = 1
            THEN PlayerAt(<<18, 3, 11, 9, 4, 19, 12, 5, 10>>, <<2, 13, 14, 16>>,
                          InPlay(6, 60, 0),
                          <<InPlay(7, 60, 7), InPlay(0, 60, 1), InPlay(1, 60, 3)>>, 0)
            ELSE PlayerAt(<<22, 33, 26, 36, 24, 34, 27, 25, 37, 28, 35, 23>>,
                          <<29, 30, 31, 32, 38, 39>>,
                          InPlay(20, 20, 0),
                          <<InPlay(21, 60, 0), null, null>>, 1)]]

\* Turn 19, player 1 to move, having just drawn its 19th card: one card, a
\* basic creature, is left in its deck.  Each player has two points from
\* knocking out two evolved creatures, and has played supporters (player 1
\* two of them and a whistle, player 2 all three).  The position is
\* followed to the end of the turn.
LastCardPosition ==
    [turnCount |-> LastCardGame.turnCount, currentPlayer |-> 1, rand |-> LastCardGame.rand,
     players |->
        [p \in PlayerIds |->
            IF p = 1
            THEN PlayerAt(<<8>>, <<15, 17, 10, 11, 18, 12, 19>>,
                          InPlay(9, 60, 5),
                          <<InPlay(7, 60, 3), InPlay(5, 90, 9), null>>, 2)
            ELSE PlayerAt(<<>>, <<26, 27, 29, 31, 32, 36, 37, 38, 39>>,
                          InPlay(30, 40, 6),
                          <<InPlay(25, 90, 8), null, null>>, 2)]]

\* Turn 21, player 1 to move, both decks drawn to the last card.  Each
\* player has played its three supporters and two whistles, has lost two
\* Axoloras (two non-Ex knockouts, two points to the other side), and has
\* on its board an MC Scratchinator grown through Guard Cat, one grown with
\* a Chicken Nugget, a Guard Cat and an Axolora; the second Chicken Nugget
\* is the only card in hand.  The position is followed to turn 22, the
\* turn player 2 starts with an empty deck.
EmptyDeckPosition ==
    [turnCount |-> EmptyDeckGame.turnCount, currentPlayer |-> 1, rand |-> EmptyDeckGame.rand,
     players |->
        [p \in PlayerIds |->
            IF p = 1
            THEN PlayerAt(<<>>, <<19>>,
                          InPlay(11, 60, 9),
                          <<InPlay(12, 180, 13), InPlay(10, 100, 15), InPlay(5, 90, 17)>>, 2)
            ELSE PlayerAt(<<>>, <<39>>,
                          InPlay(31, 180, 10),
                          <<InPlay(32, 180, 14), InPlay(30, 100, 16), InPlay(25, 90, 18)>>, 2)]]

Positions == {FullBoardPosition, LastCardPosition, EmptyDeckPosition}

PositionInit ==
    \E position \in Positions :
        /\ phase = "playing"
        /\ currentPlayer = position.currentPlayer
        /\ gameOver = FALSE
        /\ winner = 0
        /\ turnCount = position.turnCount
        /\ setupReady = [p \in PlayerIds |-> TRUE]
        /\ players = position.players
        /\ cardUidCounter = 2 * ConfigSize(DECK_CONFIGS, 1)
        /\ rand = position.rand
        /\ gameEndedCount = 0
        /\ gameEndedDetail = 0
        /\ seed = position.rand
        /\ ai = [AIIdle EXCEPT !.setupCalled = TRUE]

\* The games from the deal on, and the games in progress from their
\* positions on.
PositionSpec == (Init \/ PositionInit) /\ [][Next]_vars

---------------------------------------------------------------------------
(* ai.ts: AIController *)

\* array.findIndex(callback), passes being the results of the callback on
\* the elements of array: the first index that passes, else -1
FindIndex(passes) ==
    IF \E k \in 1..Len(passes) : passes[k]
    THEN (CHOOSE k \in 1..Len(passes) : passes[k] /\ \A j \in 1..(k - 1) : ~passes[j]) - 1
    ELSE -1

\* array.map((card, index) => callback(card) ? index : -1).filter(index !== -1)
\* over the first n elements: the indices that pass, in ascending order.
RECURSIVE IndicesWhere(_, _)
IndicesWhere(passes, n) ==
    IF n = 0 THEN <<>>
    ELSE IndicesWhere(passes, n - 1) \o (IF passes[n] THEN <<n - 1>> ELSE <<>>)

AreBasic(hand) == [k \in 1..Len(hand) |-> isBasic(hand[k])]

\* array.sort((a, b) => b - a) of an array in ascending order
Descending(array) == [k \in 1..Len(array) |-> array[Len(array) + 1 - k]]

ChooseActiveBuddyIndex(hand) == FindIndex(AreBasic(hand))

\* A variant of _chooseBenchBuddyIndices that leaves the indices in
\* ascending order.
ChooseBenchBuddyIndicesAscending(hand) == IndicesWhere(AreBasic(hand), Len(hand))

ChooseBenchBuddyIndices(hand) == Descending(IndicesWhere(AreBasic(hand), Len(hand)))

\* A variant of _choosePromotionBuddyIndex that finds no bench creature.
ChoosePromotionBuddyIndexNone(bench) == -1

ChoosePromotionBuddyIndex(bench) ==
    IF \E k \in 1..Len(bench) : bench[k] # null
    THEN (CHOOSE k \in 1..Len(bench) :
              bench[k] # null /\ \A j \in 1..(k - 1) : bench[j] = null) - 1
    ELSE -1

\* A variant of the forEach that takes the last of the cards with the
\* highest hp.
RECURSIVE FindStrongestLast(_, _, _)
FindStrongestLast(hps, passes, n) ==
    IF n = 0
    THEN [bestIndex |-> -1, maxHp |-> -1]
    ELSE LET before == FindStrongestLast(hps, passes, n - 1)
         IN  IF passes[n] /\ hps[n] >= before.maxHp
             THEN [bestIndex |-> n - 1, maxHp |-> hps[n]]
             ELSE before

\* The forEach of _findStrongestCardIndex over the first n cards: hps are
\* the cards' `hp ?? 0`, passes whether a card is there and passes filterFn.
RECURSIVE FindStrongest(_, _, _)
FindStrongest(hps, passes, n) ==
    IF n = 0
    THEN [bestIndex |-> -1, maxHp |-> -1]
    ELSE LET before == FindStrongest(hps, passes, n - 1)
         IN  IF passes[n] /\ hps[n] > before.maxHp
             THEN [bestIndex |-> n - 1, maxHp |-> hps[n]]
             ELSE before

FindStrongestCardIndex(hps, passes) == FindStrongest(hps, passes, Len(hps)).bestIndex

\* GreedyAIController._chooseActiveBuddyIndex
GreedyChooseActiveBuddyIndex(hand) ==
    FindStrongestCardIndex([k \in 1..Len(hand) |-> OrZero(hand[k].hp)], AreBasic(hand))

\* GreedyAIController._choosePromotionBuddyIndex
GreedyChoosePromotionBuddyIndex(bench) ==
    FindStrongestCardIndex(
        [k \in 1..Len(bench) |-> IF bench[k] = null THEN 0 ELSE OrZero(bench[k][1].hp)],
        [k \in 1..Len(bench) |-> bench[k] # null])

\* this._chooseActiveBuddyIndex and this._choosePromotionBuddyIndex of the
\* controller of player me: the method of its class.
ThisChooseActiveBuddyIndex(me, hand) ==
    IF ai.policy[me] = "greedy"
    THEN GreedyChooseActiveBuddyIndex(hand)
    ELSE ChooseActiveBuddyIndex(hand)

ThisChoosePromotionBuddyIndex(me, bench) ==
    IF ai.policy[me] = "greedy"
    THEN GreedyChoosePromotionBuddyIndex(bench)
    ELSE ChoosePromotionBuddyIndex(bench)

\* allTargets: the active creature first (-1), then the bench slots
AllTargets == <<-1, 0, 1, 2>>

\* The body of the flatMap of _findEvolutionOpportunities for one target.
EvolutionOpportunitiesAt(p, index) ==
    LET slot == TargetSlot(p, index)
    IN  IF slot = null \/ slot[1].turnPlaced = turnCount
        THEN <<>>
        ELSE LET evolutionHandIndex ==
                     FindIndex([k \in 1..Len(p.hand) |-> evolvesFrom(p.hand[k]) = slot[1].id])
             IN  IF evolutionHandIndex # -1
                 THEN <<[handIndex |-> evolutionHandIndex, targetIndex |-> index]>>
                 ELSE <<>>

FindEvolutionOpportunities(p) ==
    IF turnCount <= 1
    THEN <<>>
    ELSE EvolutionOpportunitiesAt(p, AllTargets[1]) \o EvolutionOpportunitiesAt(p, AllTargets[2])
         \o EvolutionOpportunitiesAt(p, AllTargets[3]) \o EvolutionOpportunitiesAt(p, AllTargets[4])

IsChickenNugget(card) == card.id = "base-008"

\* The body of the flatMap of _findChickenNuggetOpportunities for one target.
ChickenNuggetOpportunitiesAt(p, index) ==
    LET slot == TargetSlot(p, index)
        chickenNuggetIndices ==
            IndicesWhere([k \in 1..Len(p.hand) |-> IsChickenNugget(p.hand[k])], Len(p.hand))
    IN  IF slot = null \/ ~isBasic(slot[1])
        THEN <<>>
        ELSE IF \E k \in 1..Len(p.hand) :
                    evolvesFromBasic(p.hand[k]) = slot[1].id /\ ~IsChickenNugget(p.hand[k])
             THEN [k \in 1..Len(chickenNuggetIndices) |->
                      [handIndex |-> chickenNuggetIndices[k], targetIndex |-> index]]
             ELSE <<>>

FindChickenNuggetOpportunities(p) ==
    IF \A k \in 1..Len(p.hand) : ~IsChickenNugget(p.hand[k])
    THEN <<>>
    ELSE ChickenNuggetOpportunitiesAt(p, AllTargets[1]) \o ChickenNuggetOpportunitiesAt(p, AllTargets[2])
         \o ChickenNuggetOpportunitiesAt(p, AllTargets[3]) \o ChickenNuggetOpportunitiesAt(p, AllTargets[4])

\* The place a method goes on from after it has set up a loop: the body of
\* the loop if there is an iteration to make, else the statement after it.
LoopOrPast(more, body, past) == IF more THEN body ELSE past

\* setup() up to its first playCard, or to its return when the hand holds
\* no basic creature.
aiSetupCall(me) ==
    /\ ai.pc = "idle"
    /\ LET activeCandidateIndex == ThisChooseActiveBuddyIndex(me, players[me].hand)
       IN  IF activeCandidateIndex > -1
           THEN /\ playCard(me, activeCandidateIndex)
                /\ \E indices \in {ChooseBenchBuddyIndices(players'[me].hand)} :
                      ai' = [ai EXCEPT
                                !.pc = LoopOrPast(indices # <<>>, "setup:forEach", "setup:ready"),
                                !.queue = indices, !.i = 0, !.setupCalled = TRUE,
                                !.hand = players[me].hand, !.me = me]
           ELSE /\ NoEffect
                /\ ai' = [ai EXCEPT !.setupCalled = TRUE, !.hand = players[me].hand,
                                    !.me = me]

\* setup() as the listener of gameInitialized calls it: once after a deal.
aiSetup(me) == ~ai.setupCalled /\ aiSetupCall(me)

\* One call of the callback of the forEach of setup().
aiSetupBench(me) ==
    /\ ai.pc = "setup:forEach"
    /\ playCard(me, Head(ai.queue))
    /\ ai' = [ai EXCEPT !.pc = LoopOrPast(Tail(ai.queue) # <<>>, "setup:forEach", "setup:ready"),
                        !.queue = Tail(ai.queue)]

\* The last statement of setup().
aiSetupReady(me) ==
    /\ ai.pc = "setup:ready"
    /\ setPlayerReady(me)
    /\ ai' = [ai EXCEPT !.pc = "idle"]

\* executeTurn() when it does not return at once, up to the promotion of a
\* bench creature or to the return after endTurn.
aiExecuteTurn(me) ==
    /\ ai.pc = "idle"
    /\ ~(gameOver \/ currentPlayer # me)
    /\ IF players[me].active = null
       THEN LET promotionIndex == ThisChoosePromotionBuddyIndex(me, players[me].bench)
            IN  IF promotionIndex > -1
                THEN /\ promote(me, promotionIndex)
                     /\ ai' = [ai EXCEPT !.pc = "turn:supporter", !.me = me]
                ELSE /\ endTurn
                     /\ ai' = [ai EXCEPT !.me = me]
       ELSE /\ NoEffect
            /\ ai' = [ai EXCEPT !.pc = "turn:supporter", !.me = me]

\* The supporter of the turn, and the start of the loop over the items.
aiSupporter(me) ==
    /\ ai.pc = "turn:supporter"
    /\ LET supporterIndex ==
               FindIndex([k \in 1..Len(players[me].hand) |-> isSupporter(players[me].hand[k])])
       IN  IF ~players[me].hasPlayedSupporter /\ supporterIndex > -1
           THEN playCard(me, supporterIndex)
           ELSE NoEffect
    /\ \E last \in {Len(players'[me].hand) - 1} :
          ai' = [ai EXCEPT !.pc = LoopOrPast(last >= 0, "turn:items", "turn:nugget"),
                           !.i = last]

\* One iteration of the loop over the items.
aiItem(me) ==
    /\ ai.pc = "turn:items"
    /\ LET card == players[me].hand[ai.i + 1]
       IN  IF isItem(card) /\ ~IsChickenNugget(card)
           THEN playCard(me, ai.i)
           ELSE NoEffect
    /\ ai' = [ai EXCEPT !.pc = LoopOrPast(ai.i - 1 >= 0, "turn:items", "turn:nugget"),
                        !.i = ai.i - 1]

aiChickenNugget(me) ==
    /\ ai.pc = "turn:nugget"
    /\ LET chickenNuggetOpps == FindChickenNuggetOpportunities(players[me])
       IN  IF Len(chickenNuggetOpps) > 0
           THEN playChickenNugget(me, chickenNuggetOpps[1].handIndex,
                                  chickenNuggetOpps[1].targetIndex)
           ELSE NoEffect
    /\ ai' = [ai EXCEPT !.pc = "turn:evolve"]

\* The evolution of the turn, and the start of the forEach over the basic
\* creatures in hand.
aiEvolve(me) ==
    /\ ai.pc = "turn:evolve"
    /\ LET evolutionOpps == FindEvolutionOpportunities(players[me])
       IN  IF Len(evolutionOpps) > 0
           THEN evolve(me, evolutionOpps[1].handIndex, evolutionOpps[1].targetIndex)
           ELSE NoEffect
    /\ \E indices \in {ChooseBenchBuddyIndices(players'[me].hand)} :
          ai' = [ai EXCEPT !.pc = LoopOrPast(indices # <<>>, "turn:forEach", "turn:attack"),
                           !.queue = indices]

\* One call of the callback of the forEach of executeTurn().
aiBench(me) ==
    /\ ai.pc = "turn:forEach"
    /\ playCard(me, Head(ai.queue))
    /\ ai' = [ai EXCEPT !.pc = LoopOrPast(Tail(ai.queue) # <<>>, "turn:forEach", "turn:attack"),
                        !.queue = Tail(ai.queue)]

\* The last statement of executeTurn().
aiAttack(me) ==
    /\ ai.pc = "turn:attack"
    /\ IF players[me].active # null THEN attack ELSE endTurn
    /\ ai' = [ai EXCEPT !.pc = "idle"]

---------------------------------------------------------------------------
(* Two AI controllers against each other *)

\* The classes of controller: AIController and GreedyAIController.
Policies == {"naive", "greedy"}

\* The state the constructor of GameState leaves, and a controller of
\* either class for each player.
DuelInit ==
    /\ phase = "setup"
    /\ currentPlayer = 1
    /\ gameOver = FALSE
    /\ winner = 0
    /\ turnCount = 0
    /\ setupReady = [p \in PlayerIds |-> FALSE]
    /\ players = [p \in PlayerIds |-> createPlayerState]
    /\ cardUidCounter = 0
    /\ seed \in DuelSeeds
    /\ rand = seed
    /\ gameEndedCount = 0
    /\ gameEndedDetail = 0
    /\ \E policy \in [PlayerIds -> Policies] : ai = [AIIdle EXCEPT !.policy = policy]

\* initializeGame() at the start of the match.
duelInitializeGame ==
    /\ ai.pc = "idle"
    /\ cardUidCounter = 0
    /\ initializeGame
    /\ UNCHANGED ai

\* setup() of the controller of player me, once the cards are dealt:
\* player 1's controller first, then player 2's.
duelSetup(me) ==
    /\ phase = "setup" /\ cardUidCounter # 0
    /\ ~setupReady[me]
    /\ \A q \in PlayerIds : q < me => setupReady[q]
    /\ aiSetupCall(me)

\* executeTurn() of the controller of the current player.
duelExecuteTurn(me) ==
    /\ phase = "playing"
    /\ aiExecuteTurn(me)

\* The match: each call of a controller runs to its return before the next
\* call is made.
DuelNext ==
    \/ duelInitializeGame
    \/ \E me \in PlayerIds : duelSetup(me)
    \/ aiSetupBench(ai.me)
    \/ aiSetupReady(ai.me)
    \/ \E me \in PlayerIds : duelExecuteTurn(me)
    \/ aiSupporter(ai.me)
    \/ aiItem(ai.me)
    \/ aiChickenNugget(ai.me)
    \/ aiEvolve(ai.me)
    \/ aiBench(ai.me)
    \/ aiAttack(ai.me)

\* The loop that drives the match makes its next call, and a call that has
\* been made goes on, until the game is over: weak fairness of DuelNext,
\* WF_<<vars, ai>>(DuelNext), written out with its enabling condition, that
\* the game is not over.
FairLoop == []<>gameOver \/ []<><<DuelNext>>_<<vars, ai>>

DuelSpec == DuelInit /\ [][DuelNext]_<<vars, ai>> /\ FairLoop

---------------------------------------------------------------------------
(* ui.ts: the page, one human player against the AI controller *)

\* The player the page's handlers act for, and the player its AI controller
\* acts for.
HumanPlayer == 1

AIPlayer == 2

\* canAct of renderPlayer for the human player: the hand and the board of
\* the human player take clicks and drags.
UICanAct == currentPlayer = HumanPlayer \/ phase = "setup"

\* initializeGame() at the end of the page's set-up; the listener of
\* gameInitialized schedules setup().
uiInitializeGame ==
    /\ ai.pc = "idle"
    /\ initializeGame
    /\ ai' = [ai EXCEPT !.setupCalled = FALSE]

\* The click on the human player's active creature.
uiAttack ==
    /\ ai.pc = "idle"
    /\ UICanAct /\ phase # "setup"
    /\ players[HumanPlayer].active # null /\ players[AIPlayer].active # null
    /\ ~attackRejects
    /\ attack
    /\ UNCHANGED ai

\* The click on the End Turn button.
uiEndTurn ==
    /\ ai.pc = "idle"
    /\ phase # "setup" /\ currentPlayer = HumanPlayer
    /\ ~endTurnRejects
    /\ endTurn
    /\ UNCHANGED ai

\* The click on the Ready button.
uiReady ==
    /\ ai.pc = "idle"
    /\ phase = "setup" /\ ~setupReady[HumanPlayer]
    /\ ~setPlayerReadyRejects(HumanPlayer)
    /\ setPlayerReady(HumanPlayer)
    /\ UNCHANGED ai

\* The page and its AI controller, the attack click aside: the human
\* player's clicks and drags between two calls of the controller, and the
\* calls of the controller, each run to its return before anything else
\* happens.
PageNext ==
    \/ uiInitializeGame
    \/ uiEndTurn
    \/ uiReady
    \/ \E handIndex \in HandIndices(HumanPlayer) :
          /\ ai.pc = "idle" /\ UICanAct
          /\ ~playCardRejects(HumanPlayer, handIndex)
          /\ playCard(HumanPlayer, handIndex)
          /\ UNCHANGED ai
    \/ \E handIndex \in HandIndices(HumanPlayer) : \E targetBoardIndex \in BoardIndices :
          /\ ai.pc = "idle" /\ UICanAct
          /\ ~evolveRejects(HumanPlayer, handIndex, targetBoardIndex)
          /\ \A handCard \in {At(players[HumanPlayer].hand, handIndex)} :
                handCard = <<>> \/ ~IsChickenNugget(handCard[1])
          /\ evolve(HumanPlayer, handIndex, targetBoardIndex)
          /\ UNCHANGED ai
    \/ \E handIndex \in HandIndices(HumanPlayer) : \E targetBoardIndex \in BoardIndices :
          /\ ai.pc = "idle" /\ UICanAct
          /\ playChickenNuggetResult(HumanPlayer, handIndex, targetBoardIndex)
          /\ playChickenNugget(HumanPlayer, handIndex, targetBoardIndex)
          /\ UNCHANGED ai
    \/ \E benchIndex \in BoardIndices :
          /\ ai.pc = "idle" /\ UICanAct
          /\ ~promoteRejects(HumanPlayer, benchIndex)
          /\ promote(HumanPlayer, benchIndex)
          /\ UNCHANGED ai
    \/ \E benchIndex \in BoardIndices :
          /\ ai.pc = "idle" /\ UICanAct
          /\ ~retreatRejects(HumanPlayer, benchIndex)
          /\ retreat(HumanPlayer, benchIndex)
          /\ UNCHANGED ai
    \/ aiSetup(AIPlayer)
    \/ aiSetupBench(AIPlayer)
    \/ aiSetupReady(AIPlayer)
    \/ aiExecuteTurn(AIPlayer)
    \/ aiSupporter(AIPlayer)
    \/ aiItem(AIPlayer)
    \/ aiChickenNugget(AIPlayer)
    \/ aiEvolve(AIPlayer)
    \/ aiBench(AIPlayer)
    \/ aiAttack(AIPlayer)

\* The page and its AI controller, the attack following its click at once.
AINext ==
    \/ uiAttack
    \/ PageNext

\* The deal of five basic creatures to the second player; the first
\* player is dealt an Axolittle, a supporter, a whistle, an Axolora and a
\* Guard Cat.
FiveBasicsPosition ==
    [turnCount |-> FiveBasicsGame.turnCount, currentPlayer |-> 1, rand |-> FiveBasicsGame.rand,
     players |->
        [p \in PlayerIds |->
            IF p = 1
            THEN PlayerAt(<<14, 6, 18, 1, 11, 4, 17, 7, 12, 19, 2, 15, 8, 5, 10>>,
                          <<0, 13, 16, 3, 9>>, null, <<null, null, null>>, 0)
            ELSE PlayerAt(<<33, 28, 39, 24, 31, 36, 23, 30, 35, 38, 25, 32, 29, 34, 37>>,
                          <<20, 26, 21, 27, 22>>, null, <<null, null, null>>, 0)]]

\* The page before initializeGame, and the page after a deal, setup() not
\* called yet.
AIInit ==
    /\ phase = "setup"
    /\ currentPlayer = 1
    /\ gameOver = FALSE
    /\ winner = 0
    /\ turnCount = 0
    /\ setupReady = [p \in PlayerIds |-> FALSE]
    /\ gameEndedCount = 0
    /\ gameEndedDetail = 0
    /\ ai = AIIdle
    /\ \/ /\ players = [p \in PlayerIds |-> createPlayerState]
          /\ cardUidCounter = 0
          /\ seed \in AISeeds
          /\ rand = seed
       \/ /\ players = FiveBasicsPosition.players
          /\ cardUidCounter = 2 * ConfigSize(DECK_CONFIGS, 1)
          /\ seed = FiveBasicsPosition.rand
          /\ rand = seed

AISpec == AIInit /\ [][AINext]_<<vars, ai>>

---------------------------------------------------------------------------
(* ui.ts: the timer between the attack click and gameState.attack() *)

\* The click on the human player's active creature: handleGameClick finds
\* both active cards on the page and sets the timer.
uiAttackClick ==
    /\ ai.pc = "idle" /\ ~gameOver
    /\ UICanAct /\ phase # "setup"
    /\ players[HumanPlayer].active # null /\ players[AIPlayer].active # null
    /\ ai.attackTimers < MaxAttackTimers
    /\ ai' = [ai EXCEPT !.attackTimers = @ + 1]
    /\ UNCHANGED vars

\* A timer of an attack click fires: () => gameState.attack()
uiAttackTimer ==
    /\ ai.pc = "idle"
    /\ ai.attackTimers > 0
    /\ attack
    /\ ai' = [ai EXCEPT !.attackTimers = @ - 1]

\* The timer of executeTurn() is set when the AI's turn starts and runs
\* 750 ms; the timers of the attack clicks made before run 500 ms: they
\* have fired when executeTurn() is called.
ExecuteTurnTimerWaits ==
    /\ ai.attackTimers > 0
    /\ ai.pc = "idle" /\ phase = "playing" /\ currentPlayer = AIPlayer

TimerNext ==
    \/ uiAttackClick
    \/ uiAttackTimer
    \/ ~ExecuteTurnTimerWaits /\ PageNext

TimerInit == AIInit /\ seed \in TimerSeeds \cup {FiveBasicsPosition.rand}

TimerSpec == TimerInit /\ [][TimerNext]_<<vars, ai>>

---------------------------------------------------------------------------
(* Properties *)

\* The damage an attack of the current player deals, and the hp it leaves
\* the defender's active creature with.
HpAfterAttack ==
    LET attacker == players[currentPlayer].active[1]
        defender == players[getOpponentId(currentPlayer)].active[1]
    IN  defender.hp - CARD_DATA[attacker.id].attackDamage

\* Both active slots are occupied, so that an attack has a defender.
BothActive == \A p \in PlayerIds : players[p].active # <<>>

\* C1: every attack() that brings the defender's active creature to
\* hp <= 0 raises the attacker's points by exactly 2 if the defeated card is
\* an Ex card and by exactly 1 otherwise, and empties the defender's active
\* slot; an attack that leaves the defender's hp > 0 changes no points.
C1_KnockoutPoints ==
    [][(BothActive /\ attack) =>
        LET me       == currentPlayer
            opp      == getOpponentId(currentPlayer)
            defeated == players[opp].active[1]
        IN  IF HpAfterAttack <= 0
            THEN /\ players'[me].points =
                       players[me].points + (IF CARD_DATA[defeated.id].isEx THEN 2 ELSE 1)
                 /\ players'[opp].points = players[opp].points
                 /\ players'[opp].active = <<>>
            ELSE \A p \in PlayerIds : players'[p].points = players[p].points]_vars

\* C1 witness: the game dealt from seed 770 gives each player one creature,
\* so it ends with the first knockout; the two points are those of the
\* knocked-out MC Scratchinator (base-005).
C1_ExKnockedOut ==
    \E p \in PlayerIds :
        /\ seed = 770
        /\ gameOver
        /\ winner = p
        /\ players[p].points = 2
        /\ players[getOpponentId(p)].active = <<>>

C3_GameOverImmutable ==
    /\ [](gameOver <=> winner \in PlayerIds)
    /\ [](gameEndedCount <= 1)
    /\ [](gameEndedCount = (IF gameOver THEN 1 ELSE 0))
    /\ [](gameOver => gameEndedDetail = winner)
    /\ [][gameOver => (gameOver' /\ winner' = winner)]_vars

\* C3 witness: a finished game, its one notification carrying the winner.
C3_GameEndedOnce ==
    gameOver /\ winner \in PlayerIds /\ gameEndedCount = 1 /\ gameEndedDetail = winner

\* Some call of a public operation, with any arguments, makes the step.
AnyCall ==
    \/ endTurn
    \/ attack
    \/ \E player \in PlayerIds : setPlayerReady(player)
    \/ \E player \in PlayerIds : \E handIndex \in HandIndices(player) :
          playCard(player, handIndex)
    \/ \E player \in PlayerIds : \E handIndex \in HandIndices(player) :
       \E targetBoardIndex \in BoardIndices :
          \/ evolve(player, handIndex, targetBoardIndex)
          \/ playChickenNugget(player, handIndex, targetBoardIndex)
    \/ \E player \in PlayerIds : \E benchIndex \in BoardIndices :
          promote(player, benchIndex) \/ retreat(player, benchIndex)

SlotOf(p, targetBoardIndex) ==
    IF targetBoardIndex = -1 THEN p.active
    ELSE IF targetBoardIndex \in 0..2 THEN p.bench[targetBoardIndex + 1]
    ELSE <<>>

\* The card at a hand index, empty where the hand has no such index.
HandCard(p, handIndex) ==
    IF handIndex \in 0..(Len(p.hand) - 1) THEN <<p.hand[handIndex + 1]>> ELSE <<>>

\* C5: evolve never changes the board when the turn counter is 1 or less,
\* nor when the targeted creature's turnPlaced equals the turn counter: the
\* target slot still holds the same instance and the hand is unchanged.
C5_EvolveTooEarly ==
    [][\A player \in PlayerIds : \A handIndex \in HandIndices(player) :
       \A targetBoardIndex \in BoardIndices :
          LET target == SlotOf(players[player], targetBoardIndex)
          IN  (/\ evolve(player, handIndex, targetBoardIndex)
               /\ \/ turnCount <= 1
                  \/ target # <<>> /\ target[1].turnPlaced = turnCount)
              => /\ SlotOf(players'[player], targetBoardIndex) = target
                 /\ players'[player].hand = players[player].hand]_vars

\* C5 witness: on turn 2 or later the current player holds the evolution of
\* a creature it has placed this very turn.
C5_EvolutionOfSameTurnCreature ==
    \E player \in PlayerIds : \E handIndex \in 0..(Len(players[player].hand) - 1) :
    \E targetBoardIndex \in -1..2 :
        LET target == SlotOf(players[player], targetBoardIndex)
        IN  /\ canAct(player)
            /\ turnCount >= 2
            /\ target # <<>>
            /\ target[1].turnPlaced = turnCount
            /\ CARD_DATA[players[player].hand[handIndex + 1].id].evolvesFrom = target[1].id

\* C6: playChickenNugget never succeeds before turn 2 and never against a
\* target whose turnPlaced equals the turn counter; on turn 1 it returns
\* false for a basic creature placed during the setup phase.
C6_NuggetTooEarly ==
    \A player \in PlayerIds : \A handIndex \in HandIndices(player) :
    \A targetBoardIndex \in BoardIndices :
        LET target == SlotOf(players[player], targetBoardIndex)
        IN  (\/ turnCount < 2
             \/ target # <<>> /\ target[1].turnPlaced = turnCount)
            => ~playChickenNuggetResult(player, handIndex, targetBoardIndex)

\* C7: after every successful evolve or playChickenNugget the new creature's
\* hp is its own maxHp minus the damage the replaced creature had taken.
C7_DamageCarries ==
    [][\A player \in PlayerIds : \A handIndex \in HandIndices(player) :
       \A targetBoardIndex \in BoardIndices :
          LET old == SlotOf(players[player], targetBoardIndex)
              new == SlotOf(players'[player], targetBoardIndex)
          IN  (/\ \/ evolve(player, handIndex, targetBoardIndex)
                  \/ playChickenNugget(player, handIndex, targetBoardIndex)
               /\ players' # players)
              => /\ old # <<>>
                 /\ new # <<>>
                 /\ new[1].uid # old[1].uid
                 /\ new[1].hp = new[1].maxHp - (old[1].maxHp - old[1].hp)]_vars

\* C7 witness: a creature put in play this turn by an evolution (it is no
\* basic creature) carries damage, which only its predecessor can have taken
\* because an attack ends the turn.
C7_EvolvedWhileDamaged ==
    \E player \in PlayerIds : \E targetBoardIndex \in -1..2 :
        LET slot == SlotOf(players[player], targetBoardIndex)
        IN  /\ slot # <<>>
            /\ ~CARD_DATA[slot[1].id].isBasic
            /\ slot[1].turnPlaced = turnCount
            /\ slot[1].hp < slot[1].maxHp

\* The preconditions of a successful evolve.
EvolvePreconditions(player, handIndex, targetBoardIndex) ==
    LET p      == players[player]
        target == SlotOf(p, targetBoardIndex)
        inHand == HandCard(p, handIndex)
    IN  /\ player = currentPlayer
        /\ phase = "playing"
        /\ ~gameOver
        /\ turnCount > 1
        /\ target # <<>>
        /\ target[1].turnPlaced < turnCount
        /\ inHand # <<>>
        /\ CARD_DATA[inHand[1].id].evolvesFrom = target[1].id

\* The effect of a successful evolve.
EvolveEffect(player, handIndex, targetBoardIndex) ==
    LET p      == players[player]
        q      == players'[player]
        other  == getOpponentId(player)
        inHand == p.hand[handIndex + 1]
        new    == SlotOf(q, targetBoardIndex)
    IN  /\ Len(q.hand) = Len(p.hand) - 1
        /\ \A k \in 1..Len(q.hand) :
              q.hand[k] = IF k <= handIndex THEN p.hand[k] ELSE p.hand[k + 1]
        /\ new # <<>>
        /\ new[1].uid = inHand.uid
        /\ new[1].id = inHand.id
        /\ new[1].turnPlaced = turnCount
        /\ \A t \in -1..2 : t # targetBoardIndex => SlotOf(q, t) = SlotOf(p, t)
        /\ q.deck = p.deck
        /\ q.points = p.points
        /\ players'[other] = players[other]
        /\ currentPlayer' = currentPlayer
        /\ turnCount' = turnCount

\* C8: when the acting player is the current player in the playing phase
\* with the game not over, the turn counter is greater than 1, the target
\* slot holds a creature with turnPlaced less than the turn counter and
\* hand[handIndex].evolvesFrom is the target's id, evolve succeeds: the hand
\* card leaves the hand and occupies the target slot with turnPlaced equal
\* to the turn counter, every other slot, the deck and the points are
\* unchanged, and the turn does not pass.
C8_EvolveSucceeds ==
    /\ [](\A player \in PlayerIds : \A handIndex \in HandIndices(player) :
          \A targetBoardIndex \in BoardIndices :
             EvolvePreconditions(player, handIndex, targetBoardIndex)
             => ENABLED (/\ evolve(player, handIndex, targetBoardIndex)
                         /\ players' # players))
    /\ [][\A player \in PlayerIds : \A handIndex \in HandIndices(player) :
          \A targetBoardIndex \in BoardIndices :
             (/\ EvolvePreconditions(player, handIndex, targetBoardIndex)
              /\ evolve(player, handIndex, targetBoardIndex))
             => EvolveEffect(player, handIndex, targetBoardIndex)]_vars

\* C8 witness: a creature that is no basic creature and no Ex card is in
\* play since this turn, which is turn 2 or later: it was put there by
\* evolve.
C8_Evolved ==
    \E player \in PlayerIds : \E targetBoardIndex \in -1..2 :
        LET slot == SlotOf(players[player], targetBoardIndex)
        IN  /\ slot # <<>>
            /\ slot[1].id \in {"base-002", "base-004"}
            /\ slot[1].turnPlaced = turnCount
            /\ turnCount > 1
            /\ player = currentPlayer

\* C9: whenever playChickenNugget returns true, the card at hand[handIndex]
\* was a Chicken Nugget (base-008), a different hand card whose
\* evolvesFromBasic is the basic target's id replaced the target, and
\* exactly those two cards left the hand; whenever it returns false the
\* state is unchanged.
C9_NuggetConsumesItem ==
    [][\A player \in PlayerIds : \A handIndex \in HandIndices(player) :
       \A targetBoardIndex \in BoardIndices :
          playChickenNugget(player, handIndex, targetBoardIndex) =>
          LET p      == players[player]
              q      == players'[player]
              item   == HandCard(p, handIndex)
              target == SlotOf(p, targetBoardIndex)
              new    == SlotOf(q, targetBoardIndex)
              Left(c) == \A k \in 1..Len(q.hand) : q.hand[k].uid # c.uid
          IN  IF playChickenNuggetResult(player, handIndex, targetBoardIndex)
              THEN /\ item # <<>>
                   /\ item[1].id = "base-008"
                   /\ target # <<>>
                   /\ CARD_DATA[target[1].id].isBasic
                   /\ new # <<>>
                   /\ new[1].uid # item[1].uid
                   /\ \E k \in 1..Len(p.hand) : p.hand[k].uid = new[1].uid
                   /\ CARD_DATA[new[1].id].evolvesFromBasic = target[1].id
                   /\ Len(q.hand) = Len(p.hand) - 2
                   /\ Left(item[1])
                   /\ Left(new[1])
              ELSE UNCHANGED vars]_vars

\* C10: a retreat(player, i) requested by the current player in the playing
\* phase with an occupied active slot and an occupied bench slot i swaps
\* them; the other bench slots, hand, deck, points, currentPlayer and
\* turnCount are unchanged.  In every other situation retreat changes
\* nothing.
C10_RetreatSwaps ==
    [][\A player \in PlayerIds : \A benchIndex \in BoardIndices :
          retreat(player, benchIndex) =>
          LET p     == players[player]
              q     == players'[player]
              bench == SlotOf(p, benchIndex)
          IN  IF /\ player = currentPlayer
                 /\ phase = "playing"
                 /\ ~gameOver
                 /\ p.active # <<>>
                 /\ benchIndex \in 0..2
                 /\ bench # <<>>
              THEN /\ q.active = bench
                   /\ q.bench[benchIndex + 1] = p.active
                   /\ q.active # q.bench[benchIndex + 1]
                   /\ q.active[1].uid # q.bench[benchIndex + 1][1].uid
                   /\ \A k \in 1..3 : k # benchIndex + 1 => q.bench[k] = p.bench[k]
                   /\ q.hand = p.hand
                   /\ q.deck = p.deck
                   /\ q.points = p.points
                   /\ players'[getOpponentId(player)] = players[getOpponentId(player)]
                   /\ currentPlayer' = currentPlayer
                   /\ turnCount' = turnCount
              ELSE UNCHANGED vars]_vars

\* C10 witness: no creature has been knocked out, and the current player's
\* active creature was placed later than the creature on its bench slot 0.
\* Placement fills the active slot first, so the two have changed places.
C10_Retreated ==
    LET p == players[currentPlayer]
    IN  /\ phase = "playing"
        /\ \A q \in PlayerIds : players[q].points = 0
        /\ p.active # <<>>
        /\ p.bench[1] # <<>>
        /\ p.active[1].uid # p.bench[1][1].uid
        /\ isBasic(p.active[1])
        /\ isBasic(p.bench[1][1])
        /\ p.active[1].turnPlaced > p.bench[1][1].turnPlaced

\* Everything but the players' states is unchanged.
OnlyPlayersChange ==
    UNCHANGED <<phase, currentPlayer, gameOver, winner, turnCount, setupReady,
                gameEndedCount, gameEndedDetail>>

\* C11: promote(player, i) takes effect exactly when the game is not over,
\* the player's active slot is empty and bench slot i holds a creature:
\* afterwards the active slot holds that instance and bench slot i is empty,
\* all other state unchanged; if a precondition fails (an out-of-range index
\* included) nothing changes.
C11_PromoteMoves ==
    /\ [](\A player \in PlayerIds : \A benchIndex \in BoardIndices :
             (/\ ~gameOver
              /\ players[player].active = <<>>
              /\ benchIndex \in 0..2
              /\ players[player].bench[benchIndex + 1] # <<>>)
             => ENABLED (promote(player, benchIndex) /\ players' # players))
    /\ [][\A player \in PlayerIds : \A benchIndex \in BoardIndices :
             promote(player, benchIndex) =>
             LET p == players[player]
                 q == players'[player]
             IN  IF /\ ~gameOver
                    /\ p.active = <<>>
                    /\ benchIndex \in 0..2
                    /\ p.bench[benchIndex + 1] # <<>>
                 THEN /\ q.active = p.bench[benchIndex + 1]
                      /\ q.bench[benchIndex + 1] = <<>>
                      /\ \A k \in 1..3 : k # benchIndex + 1 => q.bench[k] = p.bench[k]
                      /\ q.hand = p.hand
                      /\ q.deck = p.deck
                      /\ q.points = p.points
                      /\ q.hasPlayedSupporter = p.hasPlayedSupporter
                      /\ players'[getOpponentId(player)] = players[getOpponentId(player)]
                      /\ OnlyPlayersChange
                 ELSE UNCHANGED vars]_vars

\* C11 witness: player 2's active creature has been knocked out in the
\* playing phase, and its active slot now holds a creature placed during
\* setup, which therefore came from the bench.
C11_Promoted ==
    /\ ~gameOver
    /\ players[1].points = 1
    /\ players[2].active # <<>>
    /\ players[2].active[1].turnPlaced = 0
    /\ \A k \in 1..3 : players[2].bench[k] = <<>>

\* The card at handIndex of the player's hand is a supporter.
SupporterAt(player, handIndex) ==
    LET card == HandCard(players[player], handIndex)
    IN  card # <<>> /\ CARD_DATA[card[1].id].isSupporter

\* C12: within one turn a player plays at most one supporter: playing one
\* sets the player's hasPlayedSupporter flag, while the flag is set every
\* playCard on a supporter by that player leaves hand and deck unchanged,
\* and the flag is cleared at, and only at, the start of the player's own
\* turn.
C12_OneSupporterPerTurn ==
    [][/\ \A player \in PlayerIds : \A handIndex \in HandIndices(player) :
             (SupporterAt(player, handIndex) /\ playCard(player, handIndex)) =>
             IF players[player].hasPlayedSupporter
             THEN /\ players'[player].hand = players[player].hand
                  /\ players'[player].deck = players[player].deck
             ELSE players'[player].hand # players[player].hand
                  => players'[player].hasPlayedSupporter
       /\ \A player \in PlayerIds :
             LET TurnStarts == turnCount' = turnCount + 1 /\ currentPlayer' = player
             IN  /\ (players[player].hasPlayedSupporter
                     /\ ~players'[player].hasPlayedSupporter) => TurnStarts
                 /\ TurnStarts => ~players'[player].hasPlayedSupporter]_vars

\* C12 witness: the current player has played a supporter this turn and
\* holds another one.
C12_SecondSupporterInHand ==
    \E player \in PlayerIds : \E handIndex \in 0..(Len(players[player].hand) - 1) :
        /\ canAct(player)
        /\ players[player].hasPlayedSupporter
        /\ SupporterAt(player, handIndex)

\* array without the element at the 0-based index i
Without(array, i) ==
    [k \in 1..(Len(array) - 1) |-> IF k <= i THEN array[k] ELSE array[k + 1]]

\* The last n elements of an array, fewer if it has fewer.
Top(array, n) ==
    SubSeq(array, (IF Len(array) > n THEN Len(array) - n ELSE 0) + 1, Len(array))

\* The array without its last n elements.
BelowTop(array, n) == SubSeq(array, 1, IF Len(array) > n THEN Len(array) - n ELSE 0)

\* The board, the points and the opponent's state are unchanged.
BoardUnchanged(player) ==
    /\ players'[player].active = players[player].active
    /\ players'[player].bench = players[player].bench
    /\ players'[player].points = players[player].points
    /\ players'[getOpponentId(player)] = players[getOpponentId(player)]
    /\ OnlyPlayersChange

\* The preconditions of playing the supporter at handIndex.
SupporterPlayable(player, handIndex) ==
    /\ player = currentPlayer
    /\ phase = "playing"
    /\ ~gameOver
    /\ ~players[player].hasPlayedSupporter
    /\ SupporterAt(player, handIndex)

\* C13: a supporter played by the current player in the playing phase, the
\* flag not yet set, moves the top 2 cards of that player's deck (all of
\* them if fewer than 2) into the hand and removes exactly the supporter at
\* handIndex from the hand; in the setup phase playCard on a supporter
\* changes nothing.
C13_SupporterDrawsTwo ==
    /\ [](\A player \in PlayerIds : \A handIndex \in HandIndices(player) :
             SupporterPlayable(player, handIndex)
             => ENABLED (playCard(player, handIndex) /\ players' # players))
    /\ [][\A player \in PlayerIds : \A handIndex \in HandIndices(player) :
             (SupporterAt(player, handIndex) /\ playCard(player, handIndex)) =>
             LET p == players[player]
                 q == players'[player]
             IN  /\ SupporterPlayable(player, handIndex) =>
                       /\ q.deck = BelowTop(p.deck, 2)
                       /\ q.hand = Without(p.hand, handIndex) \o Top(p.deck, 2)
                       /\ BoardUnchanged(player)
                 /\ phase = "setup" => UNCHANGED vars]_vars

\* C13 witness: the current player has played a supporter, which took the
\* last card of its deck.
C13_SupporterTookLastCard ==
    /\ LastCardGame.rand = seed
    /\ players[1].hasPlayedSupporter
    /\ players[1].deck = <<>>
    /\ \E k \in 1..Len(players[1].hand) : players[1].hand[k].uid = 8
    /\ \E k \in 1..Len(players[1].hand) : players[1].hand[k].id = "base-007"

\* The card at handIndex of the current player's hand is a Coach Whistle,
\* and the player may play it.
WhistlePlayable(player, handIndex) ==
    LET card == HandCard(players[player], handIndex)
    IN  /\ player = currentPlayer
        /\ phase = "playing"
        /\ ~gameOver
        /\ card # <<>>
        /\ card[1].id = "base-007"

\* C14: playing Coach Whistle in the playing phase as current player removes
\* the whistle from the hand and, if the deck holds a basic creature, moves
\* exactly one basic creature from the deck into the hand, the remaining
\* deck being a permutation of the other cards; if the deck holds no basic
\* creature the whistle is still consumed and the deck keeps the same cards.
C14_WhistleFetchesBasic ==
    /\ [](\A player \in PlayerIds : \A handIndex \in HandIndices(player) :
             WhistlePlayable(player, handIndex)
             => /\ ~playCardRejects(player, handIndex)
                /\ PlayCardDispatch(player, handIndex).played)
    /\ [][\A player \in PlayerIds : \A handIndex \in HandIndices(player) :
             (WhistlePlayable(player, handIndex) /\ playCard(player, handIndex)) =>
             LET p    == players[player]
                 q    == players'[player]
                 rest == Without(p.hand, handIndex)
                 SameCards(deck) ==
                     /\ Len(q.deck) = Len(deck)
                     /\ \A m \in 1..Len(deck) : \E k \in 1..Len(q.deck) :
                           q.deck[k] = deck[m]
             IN  /\ IF \E k \in 1..Len(p.deck) : CARD_DATA[p.deck[k].id].isBasic
                    THEN \E k \in 1..Len(p.deck) :
                            /\ CARD_DATA[p.deck[k].id].isBasic
                            /\ q.hand = Append(rest, p.deck[k])
                            /\ Len(q.deck) = Len(p.deck) - 1
                            /\ SameCards(Without(p.deck, k - 1))
                    ELSE /\ q.hand = rest
                         /\ SameCards(p.deck)
                 /\ BoardUnchanged(player)]_vars

\* C14 witness: the whistle has been played on a deck without a basic
\* creature: player 1 holds no whistle any more and its deck still has its
\* nine cards.
C14_WhistleFoundNoBasic ==
    /\ FullBoardGame.rand = seed
    /\ turnCount = FullBoardGame.turnCount
    /\ \A k \in 1..Len(players[1].hand) : players[1].hand[k].id # "base-007"
    /\ Len(players[1].deck) = 9
    /\ ~players[1].hasPlayedSupporter

\* playCard(player, handIndex) is not ignored, and the card is a basic
\* creature.
BasicPlayable(player, handIndex) ==
    LET card == HandCard(players[player], handIndex)
    IN  /\ ~gameOver
        /\ phase = "setup" \/ player = currentPlayer
        /\ card # <<>>
        /\ CARD_DATA[card[1].id].isBasic

BoardFull(p) == p.active # <<>> /\ \A k \in 1..3 : p.bench[k] # <<>>

\* C15: playCard on a basic creature places it in the active slot if that
\* is empty, otherwise in the lowest-index empty bench slot, stamping its
\* turnPlaced with the turn counter; if the active slot and all three bench
\* slots are occupied the card stays in the hand at the same index and the
\* board is unchanged.
C15_BasicPlacement ==
    /\ [](\A player \in PlayerIds : \A handIndex \in HandIndices(player) :
             (BasicPlayable(player, handIndex) /\ ~BoardFull(players[player]))
             => ENABLED (playCard(player, handIndex) /\ players' # players))
    /\ [][\A player \in PlayerIds : \A handIndex \in HandIndices(player) :
             (BasicPlayable(player, handIndex) /\ playCard(player, handIndex)) =>
             LET p      == players[player]
                 q      == players'[player]
                 placed == <<[p.hand[handIndex + 1] EXCEPT !.turnPlaced = turnCount]>>
             IN  IF p.active = <<>>
                 THEN /\ q.active = placed
                      /\ q.bench = p.bench
                      /\ q.hand = Without(p.hand, handIndex)
                 ELSE IF \E k \in 1..3 : p.bench[k] = <<>>
                 THEN \E k \in 1..3 :
                         /\ p.bench[k] = <<>>
                         /\ \A m \in 1..(k - 1) : p.bench[m] # <<>>
                         /\ q.bench = [p.bench EXCEPT ![k] = placed]
                         /\ q.active = p.active
                         /\ q.hand = Without(p.hand, handIndex)
                 ELSE /\ q.active = p.active
                      /\ q.bench = p.bench
                      /\ Len(q.hand) = Len(p.hand)
                      /\ \A k \in 1..Len(p.hand) :
                            q.hand[k].uid = p.hand[k].uid /\ q.hand[k].id = p.hand[k].id]_vars

\* C15 witness: playCard has been tried on a basic creature with the board
\* full: the card is in the hand, carrying the stamp of this turn.
C15_TriedOnFullBoard ==
    \E player \in PlayerIds : \E k \in 1..Len(players[player].hand) :
        /\ BoardFull(players[player])
        /\ CARD_DATA[players[player].hand[k].id].isBasic
        /\ players[player].hand[k].turnPlaced = turnCount

\* The cases in which playCard(player, handIndex) is rejected.
PlayCardRejected(player, handIndex) ==
    LET p    == players[player]
        card == HandCard(p, handIndex)
    IN  \/ gameOver
        \/ phase = "playing" /\ player # currentPlayer
        \/ card = <<>>
        \/ /\ card # <<>>
           /\ \/ CARD_DATA[card[1].id].isSupporter
                 /\ (phase = "setup" \/ p.hasPlayedSupporter)
              \/ card[1].id = "base-007" /\ phase = "setup"
              \/ card[1].id = "base-008"
              \/ /\ ~CARD_DATA[card[1].id].isSupporter
                 /\ ~CARD_DATA[card[1].id].isItem
                 /\ ~CARD_DATA[card[1].id].isBasic
              \/ CARD_DATA[card[1].id].isBasic /\ BoardFull(p)

\* C16: every public operation that is rejected (playCard, playChickenNugget,
\* evolve, attack, promote, retreat, setPlayerReady whose preconditions fail,
\* playCard of a basic creature onto a full board included) leaves the
\* entire game state unchanged, the hp and turnPlaced of every card in hand
\* and in play included.
C16_RejectedChangesNothing ==
    [][/\ \A player \in PlayerIds : \A handIndex \in HandIndices(player) :
          /\ (PlayCardRejected(player, handIndex) /\ playCard(player, handIndex))
             => UNCHANGED vars
          /\ \A targetBoardIndex \in BoardIndices :
             /\ (/\ ~playChickenNuggetResult(player, handIndex, targetBoardIndex)
                 /\ playChickenNugget(player, handIndex, targetBoardIndex))
                => UNCHANGED vars
             /\ (/\ ~EvolvePreconditions(player, handIndex, targetBoardIndex)
                 /\ evolve(player, handIndex, targetBoardIndex))
                => UNCHANGED vars
       /\ (attack /\ ~(phase = "playing" /\ ~gameOver /\ BothActive)) => UNCHANGED vars
       /\ \A player \in PlayerIds :
          /\ (/\ setPlayerReady(player)
              /\ (phase # "setup" \/ players[player].active = <<>>))
             => UNCHANGED vars
          /\ \A benchIndex \in BoardIndices :
                LET occupied == /\ benchIndex \in 0..2
                                /\ players[player].bench[benchIndex + 1] # <<>>
                IN  /\ (/\ promote(player, benchIndex)
                        /\ (gameOver \/ players[player].active # <<>> \/ ~occupied))
                       => UNCHANGED vars
                    /\ (/\ retreat(player, benchIndex)
                        /\ \/ ~(player = currentPlayer /\ phase = "playing" /\ ~gameOver)
                           \/ players[player].active = <<>>
                           \/ ~occupied)
                       => UNCHANGED vars]_vars

\* The hand card at handIndex is a Chicken Nugget.
NuggetAt(player, handIndex) ==
    /\ HandCard(players[player], handIndex) # <<>>
    /\ HandCard(players[player], handIndex)[1].id = "base-008"

\* C17: playCard on a Chicken Nugget (base-008) has no effect in any phase:
\* the whole state (hands, decks, boards, flags) is unchanged by the call and
\* the dispatch reports that no card was played, so that no state update is
\* notified; a Chicken Nugget leaves a hand only in a call of
\* playChickenNugget on it.
C17_PlayCardIgnoresNugget ==
    /\ [](\A player \in PlayerIds : \A handIndex \in HandIndices(player) :
            (NuggetAt(player, handIndex) /\ ~playCardRejects(player, handIndex))
            => /\ ~PlayCardDispatch(player, handIndex).played
               /\ PlayCardDispatch(player, handIndex).players = players
               /\ PlayCardDispatch(player, handIndex).rand = rand)
    /\ [][\A player \in PlayerIds : \A handIndex \in HandIndices(player) :
            NuggetAt(player, handIndex)
            => /\ playCard(player, handIndex) => UNCHANGED vars
               /\ (\A k \in 1..Len(players'[player].hand) :
                       players'[player].hand[k].uid
                           # players[player].hand[handIndex + 1].uid)
                  => \E targetBoardIndex \in BoardIndices :
                        /\ playChickenNuggetResult(player, handIndex, targetBoardIndex)
                        /\ playChickenNugget(player, handIndex, targetBoardIndex)]_vars

\* C17 witness: in the playing phase of a dealt game the mover holds a Chicken
\* Nugget next to a Coach Whistle: a player who can play an item with
\* playCard holds the one item playCard ignores.
C17_NuggetInHandOfMover ==
    /\ phase = "playing" /\ ~gameOver /\ seed \in Seeds
    /\ \E handIndex \in HandIndices(currentPlayer) : NuggetAt(currentPlayer, handIndex)
    /\ \E handIndex \in HandIndices(currentPlayer) : WhistlePlayable(currentPlayer, handIndex)

\* C18: playCard has no effect when the game is over, or when the phase is
\* playing and the acting player is not the current player; in the setup
\* phase either player, the one who is not the current player included,
\* places a basic creature from the hand on a board that has room.
C18_PlayCardTurnGuard ==
    /\ [][\A player \in PlayerIds : \A handIndex \in HandIndices(player) :
            (/\ gameOver \/ (phase = "playing" /\ player # currentPlayer)
             /\ playCard(player, handIndex))
            => UNCHANGED vars]_vars
    /\ [](\A player \in PlayerIds : \A handIndex \in HandIndices(player) :
            (/\ phase = "setup"
             /\ ~gameOver
             /\ HandCard(players[player], handIndex) # <<>>
             /\ CARD_DATA[HandCard(players[player], handIndex)[1].id].isBasic
             /\ ~BoardFull(players[player]))
            => ENABLED (/\ playCard(player, handIndex)
                        /\ Len(players'[player].hand) = Len(players[player].hand) - 1
                        /\ players'[player].active # <<>>))

\* C18 witness: in the setup phase, before any turn has started and with
\* player 1 the current player, player 2 has placed an active creature and a
\* benched one.
C18_OtherPlayerPlacedInSetup ==
    /\ phase = "setup"
    /\ turnCount = 0
    /\ currentPlayer = 1
    /\ players[2].active # <<>>
    /\ \E k \in 1..3 : players[2].bench[k] # <<>>

\* C19: setPlayerReady(player) marks the player ready only in the setup phase
\* and only if that player has an active creature, and otherwise changes
\* nothing; a ready flag is set by no other operation; the phase changes
\* only in a setPlayerReady call, only from setup to playing and only when
\* both players are ready, both players are ready only in the playing
\* phase, and the playing phase never goes back to setup.
C19_ReadyAndPhase ==
    /\ [](phase \in {"setup", "playing"})
    /\ []((setupReady[1] /\ setupReady[2]) => phase = "playing")
    /\ [][/\ \A player \in PlayerIds :
              setPlayerReady(player) =>
              IF phase = "setup" /\ players[player].active # <<>>
              THEN setupReady' = [setupReady EXCEPT ![player] = TRUE]
              ELSE UNCHANGED vars
          /\ (setupReady' # setupReady) =>
              (\E player \in PlayerIds :
                  /\ ~setPlayerReadyRejects(player)
                  /\ setPlayerReady(player))
          /\ (phase' # phase) =>
              (/\ phase = "setup"
               /\ phase' = "playing"
               /\ setupReady'[1] /\ setupReady'[2]
               /\ \E player \in PlayerIds :
                     /\ ~setupReady[player]
                     /\ setPlayerReady(player))
          /\ (phase = "playing") => (phase' = "playing")]_vars

\* C19 witness: a dealt game in the playing phase, both players ready, each
\* with an active creature, after a turn has been ended.
C19_BothReadyPlaying ==
    /\ seed \in Seeds
    /\ phase = "playing"
    /\ setupReady[1] /\ setupReady[2]
    /\ turnCount >= 2
    /\ \A p \in PlayerIds : players[p].active # <<>>

\* C20: in the state right after the phase becomes playing, whatever public
\* operations were called during setup (endTurn included), the turn counter
\* is 1, the current player is 1, and player 1 has drawn no card for that
\* first turn: hand and deck of player 1 are those of the state before.
C20_FirstTurnIsTurnOne ==
    [][(phase = "setup" /\ phase' = "playing") =>
        /\ turnCount' = 1
        /\ currentPlayer' = 1
        /\ players'[1].hand = players[1].hand
        /\ players'[1].deck = players[1].deck]_vars

\* C21: in the playing phase turns alternate strictly: every turn start
\* (a step that raises the turn counter, by exactly 1) makes the opponent of
\* the previous current player the current player, and the current player
\* changes only in an endTurn call or in an attack that does not end the
\* game; in any phase a step that changes currentPlayer or turnCount is no
\* call of playCard, evolve, playChickenNugget, promote or retreat.
C21_TurnsAlternate ==
    [][/\ (phase = "playing") =>
             /\ (turnCount' # turnCount) =>
                   (/\ turnCount' = turnCount + 1
                    /\ currentPlayer' = getOpponentId(currentPlayer))
             /\ (currentPlayer' # currentPlayer) =>
                   (/\ turnCount' = turnCount + 1
                    /\ \/ ~endTurnRejects /\ endTurn
                       \/ ~attackRejects /\ attack /\ ~gameOver')
       /\ (currentPlayer' # currentPlayer \/ turnCount' # turnCount) =>
             \A player \in PlayerIds :
                /\ \A handIndex \in HandIndices(player) :
                      /\ ~playCard(player, handIndex)
                      /\ \A targetBoardIndex \in BoardIndices :
                            /\ ~evolve(player, handIndex, targetBoardIndex)
                            /\ ~playChickenNugget(player, handIndex, targetBoardIndex)
                /\ \A benchIndex \in BoardIndices :
                      ~promote(player, benchIndex) /\ ~retreat(player, benchIndex)]_vars

\* C21 witness: a dealt game in its third turn start of the playing phase or
\* later, not over, the turn having come back to the player who had the
\* first playing turn.
C21_TurnCameBack ==
    /\ seed \in Seeds
    /\ phase = "playing"
    /\ ~gameOver
    /\ turnCount >= 3
    /\ currentPlayer = 1
    /\ \A p \in PlayerIds : players[p].active # <<>>

\* C22: attack is the only operation that can end the match: gameOver and
\* winner change only in an accepted attack() that knocks out the defender's
\* active creature, gameOver going from false to true and winner becoming
\* the attacker; a step that changes either of them is no call of any other
\* public operation.
C22_OnlyAttackEndsMatch ==
    [][(gameOver' # gameOver \/ winner' # winner) =>
        /\ ~gameOver /\ gameOver'
        /\ winner' = currentPlayer
        /\ ~attackRejects /\ attack
        /\ HpAfterAttack <= 0
        /\ players'[getOpponentId(currentPlayer)].active = <<>>
        /\ ~endTurn
        /\ \A player \in PlayerIds :
              /\ ~setPlayerReady(player)
              /\ \A handIndex \in HandIndices(player) :
                    /\ ~playCard(player, handIndex)
                    /\ \A targetBoardIndex \in BoardIndices :
                          /\ ~evolve(player, handIndex, targetBoardIndex)
                          /\ ~playChickenNugget(player, handIndex, targetBoardIndex)
              /\ \A benchIndex \in BoardIndices :
                    ~promote(player, benchIndex) /\ ~retreat(player, benchIndex)]_vars

\* C22 witness: a match ended in its third turn or later: the winner is set
\* and has points, the loser's active slot is empty.
C22_MatchEndedByAttack ==
    /\ gameOver
    /\ winner \in PlayerIds
    /\ turnCount >= 3
    /\ players[getOpponentId(winner)].active = <<>>
    /\ players[winner].active # <<>>
    /\ players[winner].points >= 1

\* C23: attack() has an effect only in the playing phase with the game not
\* over and both players holding an active creature.  Then the defender's hp
\* goes down by exactly the attacker's attackDamage (a defender brought to 0
\* or less leaves the active slot), the attacker's creature is untouched
\* and, unless the game ends, the turn passes: currentPlayer flips and
\* turnCount grows by one; if the game ends neither changes.  In every
\* other case, an empty active slot on either side included, attack()
\* changes nothing and the turn does not pass.
C23_AttackEffect ==
    [][attack =>
        IF phase = "playing" /\ ~gameOver /\ BothActive
        THEN LET me  == currentPlayer
                 opp == getOpponentId(currentPlayer)
             IN  /\ players'[opp].active =
                       IF HpAfterAttack > 0
                       THEN <<[players[opp].active[1] EXCEPT !.hp = HpAfterAttack]>>
                       ELSE <<>>
                 /\ players'[me].active = players[me].active
                 /\ IF gameOver'
                    THEN UNCHANGED <<currentPlayer, turnCount>>
                    ELSE currentPlayer' = opp /\ turnCount' = turnCount + 1
        ELSE UNCHANGED vars]_vars

\* C23 witness: a dealt game in the playing phase, not over, in which an
\* attack has passed the turn: the active creature of the current player is
\* damaged and the other player's is not.
C23_HitAndTurnPassed ==
    /\ seed \in Seeds
    /\ phase = "playing"
    /\ ~gameOver
    /\ BothActive
    /\ players[currentPlayer].active[1].hp < players[currentPlayer].active[1].maxHp
    /\ players[getOpponentId(currentPlayer)].active[1].hp
          = players[getOpponentId(currentPlayer)].active[1].maxHp

\* The number of copies of each card the default deck list asks for.
DefaultCopies ==
    [id \in CardIds |->
        IF id \in {"base-001", "base-002", "base-003", "base-006"} THEN 3 ELSE 2]

\* The first hand drawn by player 1 in the game dealt from seed s: the
\* last five cards of the deck shuffled once more after both decks are
\* built.
FirstHandDrawn(s) ==
    LET n  == ConfigSize(DECK_CONFIGS, 1)
        d1 == createDeck(DECK_CONFIGS, 0, s)
        d2 == createDeck(DECK_CONFIGS, n, d1.rand)
        sh == shuffle(d1.array, d2.rand)
    IN  SubSeq(sh.array, n - InitialHandSize + 1, n)

\* C24: after initializeGame each player's hand holds exactly 5 cards, at
\* least one of them a basic creature, each deck holds the other 15, and
\* hand plus deck of each player are exactly the 20 fresh instances built
\* from the default deck list (3,3,3,2,2,3,2,2 copies of base-001..base-008,
\* uids in the order of the list), none lost and none twice.
C24_InitialDeal ==
    [][initializeGame =>
        \A player \in PlayerIds :
           LET p     == players'[player]
               cards == p.hand \o p.deck
               first == cardUidCounter + 20 * (player - 1)
           IN  /\ Len(p.hand) = 5
               /\ \E k \in 1..5 : CARD_DATA[p.hand[k].id].isBasic
               /\ Len(p.deck) = 15
               /\ {cards[k].uid : k \in 1..20} = first..(first + 19)
               /\ \A id \in CardIds :
                     Cardinality({k \in 1..20 : cards[k].id = id}) = DefaultCopies[id]
               /\ \A k \in 1..20 :
                     /\ cards[k] = createCard(cards[k].id, cards[k].uid)
                     /\ cards[k].id = ConfigIdAt(DECK_CONFIGS, 1, cards[k].uid - first + 1)]_vars

\* C24 witness: the state right after initializeGame in a game whose first
\* hand drawn for player 1 held no basic creature, so that the loop drew
\* again.
C24_DealtAfterRetry ==
    /\ seed \in Seeds
    /\ cardUidCounter = 40
    /\ phase = "setup"
    /\ turnCount = 0
    /\ \A p \in PlayerIds : Len(players[p].hand) = 5 /\ players[p].active = <<>>
    /\ \A k \in 1..InitialHandSize : ~isBasic(FirstHandDrawn(seed)[k])

\* The card instances in the zones of player p, zone after zone: deck, hand,
\* active slot, bench slots.
ZoneCards(p) ==
    p.deck \o p.hand \o p.active \o p.bench[1] \o p.bench[2] \o p.bench[3]

ZoneUids(p) == {ZoneCards(p)[k].uid : k \in 1..Len(ZoneCards(p))}

\* C27: in every reachable state each card instance occupies at most one
\* zone (deck, hand, active slot, one bench slot) of exactly one player: no
\* uid occurs twice in the zones of both players taken together; and no
\* instance moves from one player's zones to the other's: the instances in
\* a player's zones after a step were in that player's zones before it,
\* except in initializeGame, which builds fresh ones.
C27_OneZonePerCard ==
    /\ [](LET all == ZoneCards(players[1]) \o ZoneCards(players[2])
          IN  Cardinality({all[k].uid : k \in 1..Len(all)}) = Len(all))
    /\ [][\A player \in PlayerIds :
            /\ ZoneUids(players'[player])
                  \cap ZoneUids(players[getOpponentId(player)]) = {}
            /\ \/ ZoneUids(players'[player]) \subseteq ZoneUids(players[player])
               \/ initializeGame]_vars

\* C27 witness: a dealt game in which a player has cards in all four kinds
\* of zone at once, after cards of that player have left play (played
\* trainer cards, creatures evolved or knocked out).
C27_AllZonesInUse ==
    /\ seed \in Seeds
    /\ \E player \in PlayerIds :
          LET p == players[player]
          IN  /\ p.deck # <<>>
              /\ p.hand # <<>>
              /\ p.active # <<>>
              /\ \E b \in 1..3 : p.bench[b] # <<>>
              /\ Len(ZoneCards(p)) < 20

\* The cards in the active slot and on the bench of player p.
InPlayCards(p) == p.active \o p.bench[1] \o p.bench[2] \o p.bench[3]

\* C28: turnPlaced of a card instance is written exactly once, when the card
\* is committed to the active slot or a bench slot (by placement or as the
\* result of an evolution): cards in a hand or a deck have no turnPlaced, a
\* card that stays in play keeps its turnPlaced, and no retreat, promote or
\* failed placement writes it.
C28_TurnPlacedWrittenOnce ==
    /\ [](\A player \in PlayerIds :
            /\ \A k \in 1..Len(players[player].hand) :
                  players[player].hand[k].turnPlaced = undefined
            /\ \A k \in 1..Len(players[player].deck) :
                  players[player].deck[k].turnPlaced = undefined)
    /\ [][\A player \in PlayerIds :
            LET before == InPlayCards(players[player])
                after  == InPlayCards(players'[player])
            IN  \A i \in 1..Len(before) : \A j \in 1..Len(after) :
                   before[i].uid = after[j].uid
                   => before[i].turnPlaced = after[j].turnPlaced]_vars

\* A turn starts in this step: the turn counter changes.
TurnStarts == turnCount' # turnCount

\* C29: every turn start raises the turn counter by exactly 1 and, except
\* for the first turn of the match (the one that makes the counter 1), moves
\* exactly one card, the last card of the deck, from the new current
\* player's deck to the end of that player's hand when the deck is not
\* empty, and moves none when it is empty; the other player's deck and hand
\* are unchanged.
C29_TurnStartDraws ==
    [][TurnStarts =>
        LET new   == players'[currentPlayer']
            old   == players[currentPlayer']
            other == getOpponentId(currentPlayer')
        IN  /\ turnCount' = turnCount + 1
            /\ IF turnCount' > 1 /\ old.deck # <<>>
               THEN /\ new.hand = Append(old.hand, old.deck[Len(old.deck)])
                    /\ new.deck = SubSeq(old.deck, 1, Len(old.deck) - 1)
               ELSE new.hand = old.hand /\ new.deck = old.deck
            /\ players'[other].hand = players[other].hand
            /\ players'[other].deck = players[other].deck]_vars

\* C29 witness: the turn of a player whose deck was empty has started, in
\* the playing phase of a game that is not over: it is player 2's turn 22,
\* the deck is empty and the hand holds the one card it held before.
C29_TurnStartedOnEmptyDeck ==
    /\ seed = EmptyDeckGame.rand
    /\ turnCount = EmptyDeckGame.turnCount + 1
    /\ currentPlayer = 2
    /\ ~gameOver
    /\ players[2].deck = <<>>
    /\ Len(players[2].hand) = 1

\* C30: a creature cannot attack on the turn it entered play: attack() has
\* no effect when the current player's active creature has turnPlaced equal
\* to the turn counter.
C30_NoAttackOnEntryTurn ==
    [][(/\ players[currentPlayer].active # <<>>
        /\ players[currentPlayer].active[1].turnPlaced = turnCount
        /\ attack)
       => UNCHANGED vars]_vars

---------------------------------------------------------------------------
(* The AI controller *)

HasBasic(hand) == \E k \in 1..Len(hand) : isBasic(hand[k])

\* The uids of the creatures on a bench.
BenchUids(p) == {p.bench[b][1].uid : b \in {c \in 1..Len(p.bench) : p.bench[c] # null}}

HandUids(hand) == {hand[k].uid : k \in 1..Len(hand)}

\* C25: setup() of the AI controller, called in the setup phase.  When the
\* hand holds no basic creature the call returns at once, having changed
\* nothing: nothing is placed and the player is not marked ready.  When it
\* holds one the call goes on, and at its return the active slot holds a
\* basic creature of that hand, every other basic creature of that hand is
\* on the bench, or still in hand with no bench slot empty, and setupReady
\* of the AI's player is true.
C25_AISetup ==
    [][/\ (phase = "setup" /\ ai.pc = "idle" /\ ~ai.setupCalled /\ ai'.setupCalled)
          => (IF HasBasic(players[AIPlayer].hand)
              THEN ai'.pc # "idle"
              ELSE ai'.pc = "idle" /\ UNCHANGED vars /\ ~setupReady'[AIPlayer])
       /\ (ai.pc = "setup:ready" /\ ai'.pc = "idle")
          => (/\ players'[AIPlayer].active # null
              /\ isBasic(players'[AIPlayer].active[1])
              /\ players'[AIPlayer].active[1].uid \in HandUids(ai.hand)
              /\ \A k \in 1..Len(ai.hand) :
                    isBasic(ai.hand[k]) =>
                       \/ players'[AIPlayer].active[1].uid = ai.hand[k].uid
                       \/ ai.hand[k].uid \in BenchUids(players'[AIPlayer])
                       \/ /\ ai.hand[k].uid \in HandUids(players'[AIPlayer].hand)
                          /\ \A b \in 1..3 : players'[AIPlayer].bench[b] # null
              /\ setupReady'[AIPlayer])
      ]_<<vars, ai>>

\* setup() has returned from a hand of five basic creatures: one is the
\* active creature, three fill the bench, the fifth is still in hand.
C25_BenchFullOneBasicLeft ==
    /\ ai.pc = "idle" /\ ai.setupCalled
    /\ setupReady[AIPlayer]
    /\ players[AIPlayer].active # null
    /\ \A b \in 1..3 : players[AIPlayer].bench[b] # null
    /\ HasBasic(players[AIPlayer].hand)
    /\ Len(ai.hand) = InitialHandSize

\* setup() has returned from the empty hand the constructor leaves.
C25_NoBasicNothingPlaced ==
    /\ ai.pc = "idle" /\ ai.setupCalled
    /\ ai.hand = <<>>
    /\ players[AIPlayer].active = null
    /\ ~setupReady[AIPlayer]

\* A step in which a call of executeTurn() made in the AI's turn of a game
\* in progress returns: after its last statement, or after the endTurn of
\* a controller with nothing to promote.
ExecuteTurnReturns ==
    \/ ai.pc = "turn:attack" /\ ai'.pc = "idle"
    \/ /\ ai.pc = "idle" /\ ai'.pc = "idle"
       /\ phase = "playing" /\ ~gameOver /\ currentPlayer = AIPlayer
       /\ players[AIPlayer].active = null
       /\ ChoosePromotionBuddyIndex(players[AIPlayer].bench) = -1
       /\ turnCount' # turnCount

\* C26: when a call of executeTurn() made in the AI's turn, in the playing
\* phase of a game that is not over, returns, the game is over or the
\* current player is the AI's opponent.
C26_ExecuteTurnPassesTurn ==
    [][ExecuteTurnReturns
       => (gameOver' \/ currentPlayer' = getOpponentId(AIPlayer))]_<<vars, ai>>

---------------------------------------------------------------------------
(* The board *)

BenchSize == 3

\* A card with hit points: a creature.
IsCreature(card) == card.hp # undefined /\ card.maxHp # undefined

\* C32: each player's bench has exactly three slots, and each slot is empty
\* (null) or holds one creature.
C32_BenchHasThreeSlots ==
    \A player \in PlayerIds :
        /\ Len(players[player].bench) = BenchSize
        /\ \A b \in 1..Len(players[player].bench) :
              \/ players[player].bench[b] = null
              \/ /\ Len(players[player].bench[b]) = 1
                 /\ IsCreature(players[player].bench[b][1])

\* Player 2, knocked out on turn 7 of the full-board game, has promoted its
\* only bench creature: the three slots of its bench are there, all empty.
C32_PromotedFromBench ==
    /\ seed = FullBoardGame.rand
    /\ turnCount = FullBoardGame.lastTurn
    /\ players[2].active # null
    /\ players[2].active[1].uid = 21
    /\ players[2].bench = <<null, null, null>>

HasCreatureInPlay(p) == p.active # null \/ \E b \in 1..Len(p.bench) : p.bench[b] # null

\* C35: in the playing phase of a game that is not over, each player has a
\* creature in play: in the active slot or in a bench slot.
C35_CreatureInPlay ==
    (phase = "playing" /\ ~gameOver) => \A player \in PlayerIds : HasCreatureInPlay(players[player])

\* A game goes on after a knockout: the active slot of a player is empty,
\* its bench is not.
C35_KnockedOutWithBench ==
    /\ phase = "playing" /\ ~gameOver
    /\ \E player \in PlayerIds :
          /\ players[player].active = null
          /\ players[getOpponentId(player)].points > 0
          /\ HasCreatureInPlay(players[player])

\* C36: every creature in an active or bench slot has 0 < hp <= maxHp, and
\* its maxHp is the hp of its template in CARD_DATA.
C36_HpInRange ==
    \A player \in PlayerIds :
        \A k \in 1..Len(InPlayCards(players[player])) :
            LET card == InPlayCards(players[player])[k]
            IN  /\ IsCreature(card)
                /\ 0 < card.hp
                /\ card.hp <= card.maxHp
                /\ card.maxHp = CARD_DATA[card.id].hp

\* A knockout has taken a creature out of play (a point was scored), and a
\* creature that evolved while damaged is in play below its maxHp.
C36_DamagedEvolvedAfterKnockout ==
    /\ \E player \in PlayerIds : players[player].points > 0
    /\ \E player \in PlayerIds :
          \E k \in 1..Len(InPlayCards(players[player])) :
              LET card == InPlayCards(players[player])[k]
              IN  /\ ~isBasic(card)
                  /\ card.turnPlaced = turnCount
                  /\ card.hp < card.maxHp
                  /\ seed \in Seeds

---------------------------------------------------------------------------
(* Points *)

\* C37: a player has 3 or more points only when the game is over and that
\* player is the winner; no player has more than 4 points; and the points
\* of a player change only in an attack of that player, the current player,
\* and never go down.
C37_PointsAndWinner ==
    /\ [](\A player \in PlayerIds :
            /\ players[player].points >= 3 => (gameOver /\ winner = player)
            /\ players[player].points <= 4)
    /\ [][\A player \in PlayerIds :
            (players'[player].points # players[player].points)
            => (/\ players'[player].points > players[player].points
                /\ player = currentPlayer
                /\ attack)]_vars

\* A player with two points has knocked out an Ex creature: four points, and
\* the game is over with that player as the winner.
C37_WonWithFourPoints ==
    \E player \in PlayerIds :
        /\ players[player].points = 4
        /\ gameOver
        /\ winner = player

---------------------------------------------------------------------------
(* The empty deck *)

\* C38: an empty deck blocks nothing and ends nothing.  While the game is
\* not over endTurn is not rejected, whatever the decks hold, and the
\* current player with an empty deck can play a supporter (the first of the
\* turn) and a Coach Whistle.  A turn that starts for a player with an
\* empty deck leaves that player's deck empty and hand unchanged and does
\* not end the game; a supporter or a whistle played on an empty deck only
\* leaves the hand, and the game goes on.
C38_EmptyDeckBlocksNothing ==
    /\ []((~gameOver /\ \E player \in PlayerIds : players[player].deck = <<>>)
           => ~endTurnRejects)
    /\ [](\A handIndex \in HandIndices(currentPlayer) :
             (/\ players[currentPlayer].deck = <<>>
              /\ \/ SupporterPlayable(currentPlayer, handIndex)
                 \/ WhistlePlayable(currentPlayer, handIndex))
             => (/\ ~playCardRejects(currentPlayer, handIndex)
                 /\ PlayCardDispatch(currentPlayer, handIndex).played))
    /\ [][(TurnStarts /\ players[currentPlayer'].deck = <<>>)
          => (/\ players'[currentPlayer'].deck = <<>>
              /\ players'[currentPlayer'].hand = players[currentPlayer'].hand
              /\ currentPlayer' = getOpponentId(currentPlayer) \/ turnCount = 0
              /\ gameOver' = gameOver
              /\ winner' = winner)]_vars
    /\ [][\A handIndex \in HandIndices(currentPlayer) :
            (/\ players[currentPlayer].deck = <<>>
             /\ \/ SupporterPlayable(currentPlayer, handIndex)
                \/ WhistlePlayable(currentPlayer, handIndex)
             /\ playCard(currentPlayer, handIndex))
            => (/\ players'[currentPlayer].hand = Without(players[currentPlayer].hand, handIndex)
                /\ players'[currentPlayer].deck = <<>>
                /\ BoardUnchanged(currentPlayer)
                /\ gameOver' = gameOver)]_vars

\* In the last-card game player 1 has played its whistle and its supporter
\* in the same turn and its deck is empty: the second of the two was played
\* on an empty deck.
C38_TrainersPlayedOnEmptyDeck ==
    /\ seed = LastCardGame.rand
    /\ ~gameOver
    /\ players[1].deck = <<>>
    /\ players[1].hasPlayedSupporter
    /\ \A k \in 1..Len(players[1].hand) :
          ~isSupporter(players[1].hand[k]) /\ players[1].hand[k].id # "base-007"

---------------------------------------------------------------------------
(* Notifications *)

\* C34: a playCard that is not one of the attempts without effect (wrong
\* player, game over, no card at the index, supporter in setup or second
\* supporter, whistle in setup, Chicken Nugget, a card of no playable kind,
\* basic creature on a full board) emits exactly one gameStateUpdated
\* notification, whose detail is the state after the mutation, the card gone
\* from the hand; each of those attempts emits none.
C34_OneUpdatePerPlayedCard ==
    /\ [](\A player \in PlayerIds : \A handIndex \in HandIndices(player) :
            IF PlayCardRejected(player, handIndex)
            THEN playCardUpdates(player, handIndex) = <<>>
            ELSE /\ Len(playCardUpdates(player, handIndex)) = 1
                 /\ playCardUpdates(player, handIndex)[1] # players
                 /\ \A k \in 1..Len(playCardUpdates(player, handIndex)[1][player].hand) :
                       playCardUpdates(player, handIndex)[1][player].hand[k].uid
                           # players[player].hand[handIndex + 1].uid)
    /\ [][\A player \in PlayerIds : \A handIndex \in HandIndices(player) :
            (players' # players /\ ~PlayCardRejected(player, handIndex)
             /\ playCard(player, handIndex))
            => playCardUpdates(player, handIndex) = <<players'>>]_vars

\* The current player, its board full, holds a basic creature stamped with
\* this turn by a playCard that emitted nothing, and a Coach Whistle whose
\* playCard emits one notification.
C34_SilentAndNotifiedAttempts ==
    /\ phase = "playing" /\ ~gameOver
    /\ BoardFull(players[currentPlayer])
    /\ \E handIndex \in HandIndices(currentPlayer) :
          /\ BasicPlayable(currentPlayer, handIndex)
          /\ players[currentPlayer].hand[handIndex + 1].turnPlaced = turnCount
          /\ playCardUpdates(currentPlayer, handIndex) = <<>>
    /\ \E handIndex \in HandIndices(currentPlayer) :
          /\ WhistlePlayable(currentPlayer, handIndex)
          /\ Len(playCardUpdates(currentPlayer, handIndex)) = 1

---------------------------------------------------------------------------
(* drawInitialHands with a random source that may return any value *)

\* A variant of the shuffle that leaves the array as it is.
RECURSIVE ShuffleKeepsOrder(_, _)
ShuffleKeepsOrder(shuffled, i) == {shuffled}

\* The arrays the loop of shuffle can leave, from index i down, when each
\* Math.random() may return any value: j is any of 0..i.
RECURSIVE ShuffleAny(_, _)
ShuffleAny(shuffled, i) ==
    IF i <= 0
    THEN {shuffled}
    ELSE UNION {ShuffleAny([shuffled EXCEPT ![i + 1] = shuffled[j + 1],
                                            ![j + 1] = shuffled[i + 1]], i - 1) :
                j \in 0..i}

\* The decks the loop is run on: five trainers and one basic creature,
\* three cards with no basic creature among them (a trainer, an evolution,
\* an item), and two cards with a basic creature.
OneBasicDeck == <<0, 13, 14, 15, 16, 17>>

NoBasicDeck == <<13, 9, 18>>

ShortDeck == <<6, 19>>

DealDecks == {<<OneBasicDeck, ShortDeck>>, <<ShortDeck, OneBasicDeck>>,
              <<NoBasicDeck, ShortDeck>>, <<ShortDeck, NoBasicDeck>>}

\* drawInitialHands is entered: the decks are set, the hands are empty.
DealInit ==
    /\ phase = "setup"
    /\ currentPlayer = 1
    /\ gameOver = FALSE
    /\ winner = 0
    /\ turnCount = 0
    /\ setupReady = [p \in PlayerIds |-> FALSE]
    /\ \E decks \in DealDecks :
          players = [p \in PlayerIds |-> PlayerAt(decks[p], <<>>, null, <<null, null, null>>, 0)]
    /\ cardUidCounter = 2 * ConfigSize(DECK_CONFIGS, 1)
    /\ seed = 0
    /\ rand = seed
    /\ gameEndedCount = 0
    /\ gameEndedDetail = 0
    /\ ai = AIIdle

\* The while condition of the loop of player pNum, the hand being what the
\* last iteration drew, or the empty hand the first iteration finds.
LoopGoesOn(pNum) == ~HasBasic(players[pNum].hand)

\* The loop of player pNum is the one that runs: the loops of the players
\* before pNum are over, its own is not.
LoopRuns(pNum) == LoopGoesOn(pNum) /\ \A q \in PlayerIds : q < pNum => ~LoopGoesOn(q)

\* One iteration of the do-while loop of drawInitialHands for player pNum.
drawInitialHandsIteration(pNum) ==
    /\ LoopRuns(pNum)
    /\ \E shuffled \in ShuffleAny(players[pNum].deck \o players[pNum].hand,
                                   Len(players[pNum].deck \o players[pNum].hand) - 1) :
          players' = [players EXCEPT
                         ![pNum] = drawCards([@ EXCEPT !.deck = shuffled, !.hand = <<>>],
                                             InitialHandSize)]
    /\ UNCHANGED <<phase, currentPlayer, gameOver, winner, turnCount, setupReady,
                   cardUidCounter, rand, gameEndedCount, gameEndedDetail, seed, ai>>

\* The iteration after which the loop of player pNum ends.
drawInitialHandsLastIteration(pNum) ==
    drawInitialHandsIteration(pNum) /\ HasBasic(players'[pNum].hand)

DealNext == \E pNum \in PlayerIds : drawInitialHandsIteration(pNum)

\* The cards of player pNum, deck and hand.
DealtCards(pNum) == players[pNum].deck \o players[pNum].hand

\* The loop of player pNum runs and some ordering of its cards ends it.
CanEnd(pNum) == LoopRuns(pNum) /\ HasBasic(DealtCards(pNum))

\* A step that ends the loop of player pNum: the hand drawn holds a basic
\* creature.
LoopEnds(pNum) == LoopRuns(pNum) /\ HasBasic(players'[pNum].hand)

\* The random source is fair to the loop of player pNum: weak fairness of
\* the last iteration, WF_vars(drawInitialHandsLastIteration(pNum)), written
\* out with its enabling condition CanEnd and its step LoopEnds.
FairShuffle(pNum) == []<>~CanEnd(pNum) \/ []<><<LoopEnds(pNum)>>_vars

\* The loops of drawInitialHands, the shuffle being fair: a loop that could
\* end with its next iteration at every iteration does end.
DealSpec ==
    /\ DealInit
    /\ [][DealNext]_vars
    /\ \A pNum \in PlayerIds : FairShuffle(pNum)

\* C31: with a fair shuffle the loop of a player whose cards include a
\* basic creature ends, once the loops before it have ended; the loop of a
\* player whose cards include no basic creature never ends: after every
\* iteration the hand holds no basic creature and the next iteration runs.
\* The fairness assumed is that of the last iteration: an ordering that
\* ends the loop can be shuffled exactly when the cards include a basic
\* creature.
C31_RetryLoopTermination ==
    /\ HasBasic(DealtCards(1)) ~> ~LoopGoesOn(1)
    /\ (HasBasic(DealtCards(1)) /\ HasBasic(DealtCards(2))) ~> ~LoopGoesOn(2)
    /\ [](\A pNum \in PlayerIds :
            /\ ~HasBasic(DealtCards(pNum))
               => (/\ LoopGoesOn(pNum)
                   /\ LoopRuns(pNum) => ENABLED drawInitialHandsIteration(pNum))
            /\ CanEnd(pNum) <=> ENABLED drawInitialHandsLastIteration(pNum))

\* An iteration has drawn five cards with no basic creature among them,
\* the basic creature is in the deck: the loop goes into another iteration.
C31_RetryPending ==
    \E pNum \in PlayerIds :
        /\ Len(players[pNum].hand) = InitialHandSize
        /\ LoopRuns(pNum)
        /\ HasBasic(players[pNum].deck)
---------------------------------------------------------------------------
(* The choices of the two classes of controller *)

Occupied(bench) == {b \in 1..Len(bench) : bench[b] # null}

\* The slot a controller of class policy is to promote from a bench that is
\* not empty, counted from 1: the first occupied slot, or the first of the
\* occupied slots with the highest hp.
PromotionSlot(policy, bench) ==
    IF policy = "greedy"
    THEN CHOOSE b \in Occupied(bench) :
            /\ \A c \in Occupied(bench) : bench[c][1].hp <= bench[b][1].hp
            /\ \A c \in Occupied(bench) : c < b => bench[c][1].hp < bench[b][1].hp
    ELSE CHOOSE b \in Occupied(bench) : \A c \in Occupied(bench) : b <= c

\* The place in the hand, counted from 1, of the basic creature a greedy
\* controller is to open with: the first of the basic creatures with the
\* highest hp.
OpeningPlace(hand) ==
    CHOOSE k \in 1..Len(hand) :
        /\ isBasic(hand[k])
        /\ \A j \in 1..Len(hand) : isBasic(hand[j]) => hand[j].hp <= hand[k].hp
        /\ \A j \in 1..(k - 1) : isBasic(hand[j]) => hand[j].hp < hand[k].hp

\* C33: executeTurn() called for the current player with no active creature
\* and a bench that is not empty first promotes, and does nothing else
\* before: the naive controller the first occupied bench slot, the greedy
\* controller the first of the occupied slots with the highest hp.  setup()
\* of a greedy controller opens with the first of the basic creatures in
\* hand with the highest hp.
C33_PromotionAndOpeningChoice ==
    [][/\ (/\ phase = "playing" /\ ai.pc = "idle" /\ ~gameOver
           /\ players[currentPlayer].active = null
           /\ Occupied(players[currentPlayer].bench) # {}
           /\ ai' # ai)
          => \E b \in {PromotionSlot(ai.policy[currentPlayer], players[currentPlayer].bench)} :
                /\ players' = [players EXCEPT
                                  ![currentPlayer].active = players[currentPlayer].bench[b],
                                  ![currentPlayer].bench[b] = null]
                /\ ai'.pc = "turn:supporter" /\ ai'.me = currentPlayer
                /\ UNCHANGED <<phase, currentPlayer, gameOver, winner, turnCount, rand>>
       /\ (/\ phase = "setup" /\ ai.pc = "idle" /\ cardUidCounter # 0
           /\ ai' # ai /\ ai.policy[ai'.me] = "greedy")
          => \E k \in {OpeningPlace(players[ai'.me].hand)} :
                /\ players'[ai'.me].active # null
                /\ players'[ai'.me].active[1].uid = players[ai'.me].hand[k].uid
                /\ players'[ai'.me].hand = SpliceOne(players[ai'.me].hand, k - 1)
      ]_<<vars, ai>>

\* A greedy controller is called with no active creature and a bench whose
\* first occupied slot does not hold the highest hp; its opponent is a naive
\* controller.
C33_StrongestNotFirst ==
    /\ phase = "playing" /\ ai.pc = "idle" /\ ~gameOver
    /\ players[currentPlayer].active = null
    /\ Occupied(players[currentPlayer].bench) # {}
    /\ ai.policy[currentPlayer] = "greedy"
    /\ ai.policy[getOpponentId(currentPlayer)] = "naive"
    /\ PromotionSlot("greedy", players[currentPlayer].bench)
         # PromotionSlot("naive", players[currentPlayer].bench)
---------------------------------------------------------------------------
(* The end of a match between two controllers *)

\* The damage on the creature in a slot, and on the creatures of a player.
SlotDamage(slot) == IF slot = null THEN 0 ELSE OrZero(slot[1].maxHp) - OrZero(slot[1].hp)

DamageTaken(p) ==
    SlotDamage(p.active) + SlotDamage(p.bench[1]) + SlotDamage(p.bench[2])
      + SlotDamage(p.bench[3])

\* A step in which a call of executeTurn() made for the current player
\* returns: after its last statement, or after the endTurn of a controller
\* with nothing to promote.
DuelExecuteTurnReturns ==
    \/ ai.pc = "turn:attack" /\ ai'.pc = "idle"
    \/ /\ ai.pc = "idle" /\ ai'.pc = "idle"
       /\ phase = "playing" /\ ~gameOver
       /\ turnCount' # turnCount

\* C39: a match between two controllers, of either class each, started by
\* initializeGame, setup() called once for each and then executeTurn() for
\* whoever is the current player, ends: gameOver is reached with a winner,
\* before the turn the match is followed to.  No call of executeTurn()
\* returns with the game going on and the turn still the caller's; no step
\* lowers a player's points, nor the damage on a player's creatures unless
\* one of them is knocked out in that step.
C39_DuelEnds ==
    /\ <>(gameOver /\ winner \in PlayerIds)
    /\ [](turnCount < DuelMaxTurn /\ (gameOver => winner \in PlayerIds))
    /\ [][/\ DuelExecuteTurnReturns => (gameOver' \/ currentPlayer' # currentPlayer)
          /\ \A player \in PlayerIds :
                /\ players'[player].points >= players[player].points
                /\ \/ DamageTaken(players'[player]) >= DamageTaken(players[player])
                   \/ players'[getOpponentId(player)].points
                        > players[getOpponentId(player)].points
         ]_<<vars, ai>>

\* A match between a naive and a greedy controller is over: the winner has
\* three points or more, both players have lost creatures.
C39_MatchWon ==
    /\ gameOver /\ winner \in PlayerIds
    /\ ai.policy[1] # ai.policy[2]
    /\ players[winner].points >= 3
    /\ players[getOpponentId(winner)].points >= 1
---------------------------------------------------------------------------
(* The timers of the page *)

\* C40: a timer set by an attack click of the human player fires in the
\* human player's turn, or else the attack() it calls changes nothing: it
\* does not make the AI's creature attack, and does not end the AI's turn.
C40_HumanAttackInHumanTurn ==
    [][ai'.attackTimers < ai.attackTimers
       => (currentPlayer = HumanPlayer \/ UNCHANGED vars)]_<<vars, ai>>

\* A timer of an attack click is pending in the AI's turn.
C40_TimerPendingInAITurn ==
    /\ phase = "playing" /\ ~gameOver
    /\ currentPlayer = AIPlayer
    /\ ai.attackTimers > 0
    /\ players[HumanPlayer].active # null /\ players[AIPlayer].active # null
====
